---- MODULE Spec2Model ----
(***************************************************************************)
(* Model of the clicker browser agent: the agent loop (agent/loop.py),     *)
(* the structured LLM caller (llm_caller/base.py) and the session          *)
(* checkpoint (session.py, main.py).                                       *)
(*                                                                         *)
(* Text is modelled by TLA+ strings (concatenation \o, slicing SubSeq).    *)
(* A str that holds a JSON document is modelled by the object it parses    *)
(* to (content type "json"); any other str by its characters ("str").      *)
(***************************************************************************)
EXTENDS Integers, Sequences, FiniteSets, TLC

(***************************************************************************)
(* Program constants                                                       *)
(***************************************************************************)
_POST_ACTION_DELAY_MS == 2000
_COMPRESS_THRESHOLD == 50
_COMPRESS_KEEP_RECENT == 10
_STUCK_SCREENSHOT_LIMIT == 5
_TIMEOUT_SECONDS == 1800
MAX_RETRIES == 3
\* the literal 3 of "warnings_given > 3"
MaxWarnings == 3
\* the literal 150 of the summary truncation obs[:150]
SummaryObsLen == 150

(***************************************************************************)
(* Bounds of the model                                                     *)
(***************************************************************************)
\* longest conversation given to _compress_conversation on its own
MaxConvLen == 54
\* largest max_steps given on the command line (0 = unlimited)
MaxMaxSteps == 2
\* steps explored with every kind of reply, and with the clock and crashes
ShortCap == 3
\* steps explored when every action is possible
ActionsCap == 2
\* steps explored when the screen repeats
StuckCap == 9
\* steps explored in a long session
LongCap == 48
\* screens the browser chooses from when the screen repeats
StuckScreens == {1, 2}
FirstRotScreen == Cardinality(StuckScreens) + 1
\* distinct screens a long session cycles through
RotScreens == 13
\* resumes of one session
MaxResumes == 1
\* the largest step limit of a session that has one
LiveMaxSteps == 3
\* seconds that pass while a model call is awaited
TickSeconds == 1000
\* largest elapsed time explored
MaxElapsed == 2000

(***************************************************************************)
(* Messages (llm_caller/base.py)                                           *)
(***************************************************************************)
USER == "user"
ASSISTANT == "assistant"

NoObj == [observation |-> "", reasoning |-> "", next_step |-> "",
          action |-> [action |-> "", ms |-> 0, text |-> ""]]

TextContent(text) == [type |-> "text", data |-> 0, media_type |-> "", text |-> text]
ImageContent(data, media_type) ==
    [type |-> "image", data |-> data, media_type |-> media_type, text |-> ""]

\* content: a str that is not a JSON document
StrContent(s) == [t |-> "str", s |-> s, json |-> NoObj, parts |-> <<>>]
\* content: a str that is the JSON text of obj
JsonContent(obj) == [t |-> "json", s |-> "", json |-> obj, parts |-> <<>>]
\* content: a list of parts
PartsContent(parts) == [t |-> "parts", s |-> "", json |-> NoObj, parts |-> parts]

ConversationMessage(role, content) == [role |-> role, content |-> content]

\* isinstance(content, str)
IsStr(content) == content.t \in {"str", "json"}

HasImage(msg) ==
    /\ msg.content.t = "parts"
    /\ \E i \in 1..Len(msg.content.parts) : msg.content.parts[i].type = "image"

\* s[:n]
Truncate(s, n) == IF Len(s) <= n THEN s ELSE SubSeq(s, 1, n)

\* sep.join(strs)
RECURSIVE Join(_, _)
Join(strs, sep) ==
    IF Len(strs) = 0 THEN ""
    ELSE IF Len(strs) = 1 THEN strs[1]
    ELSE strs[1] \o sep \o Join(Tail(strs), sep)

\* [p.text for p in content if isinstance(p, TextContent)]
RECURSIVE TextParts(_)
TextParts(parts) ==
    IF Len(parts) = 0 THEN <<>>
    ELSE (IF parts[1].type = "text" THEN <<parts[1].text>> ELSE <<>>)
         \o TextParts(Tail(parts))

(***************************************************************************)
(* Conversation compaction (agent/loop.py)                                 *)
(***************************************************************************)
SummaryLine_ObservationOnly(step_num, content) ==
    IF content.t = "json" THEN Truncate(content.json.observation, SummaryObsLen)
    ELSE Truncate(content.s, SummaryObsLen)

\* the text of an assistant message that is a str: the JSON text is not
\* spelled out, only a str that is not JSON has characters
SummaryLine(step_num, content) ==
    IF content.t = "json"
    THEN "  Step " \o ToString(step_num) \o ": [" \o content.json.action.action
         \o "] " \o Truncate(content.json.observation, SummaryObsLen)
    ELSE "  Step " \o ToString(step_num) \o ": " \o Truncate(content.s, SummaryObsLen)

\* the for loop over to_compress: msgs still to visit, step_num so far
RECURSIVE SummaryLines(_, _)
SummaryLines(msgs, step_num) ==
    IF Len(msgs) = 0 THEN <<>>
    ELSE IF msgs[1].role = ASSISTANT /\ IsStr(msgs[1].content)
         THEN <<SummaryLine(step_num + 1, msgs[1].content)>>
              \o SummaryLines(Tail(msgs), step_num + 1)
         ELSE SummaryLines(Tail(msgs), step_num)

CompressAck ==
    ConversationMessage(ASSISTANT, JsonContent(
        [observation |-> "Understood the summary of previous steps.",
         reasoning |-> "Continuing from where we left off.",
         next_step |-> "",
         action |-> [action |-> "wait", ms |-> 0, text |-> ""]]))

WithinThreshold_KeepRecent(conversation) == Len(conversation) <= _COMPRESS_KEEP_RECENT

\* len(conversation) <= _COMPRESS_THRESHOLD
WithinThreshold(conversation) == Len(conversation) <= _COMPRESS_THRESHOLD

_compress_conversation_NoAck(conversation) ==
    IF WithinThreshold(conversation) THEN conversation
    ELSE LET n == Len(conversation)
             to_compress == SubSeq(conversation, 1, n - _COMPRESS_KEEP_RECENT)
             to_keep == SubSeq(conversation, n - _COMPRESS_KEEP_RECENT + 1, n)
             summary_text == Join(<<"Summary of previous steps:">>
                                  \o SummaryLines(to_compress, 0), "\n")
         IN  <<ConversationMessage(USER, StrContent(summary_text))>> \o to_keep

_compress_conversation(conversation) ==
    IF WithinThreshold(conversation) THEN conversation
    ELSE LET n == Len(conversation)
             to_compress == SubSeq(conversation, 1, n - _COMPRESS_KEEP_RECENT)
             to_keep == SubSeq(conversation, n - _COMPRESS_KEEP_RECENT + 1, n)
             summary_lines == <<"Summary of previous steps:">>
                              \o SummaryLines(to_compress, 0)
             summary_text == Join(summary_lines, "\n")
             summary_msg == ConversationMessage(USER, StrContent(summary_text))
         IN  <<summary_msg, CompressAck>> \o to_keep

(***************************************************************************)
(* Usage accounting (llm_caller/base.py)                                   *)
(***************************************************************************)
UsageStats(i, o, cr, cc) ==
    [input_tokens |-> i, output_tokens |-> o,
     cache_read_tokens |-> cr, cache_creation_tokens |-> cc]

UsageAdd_NoCacheCreation(self, other) ==
    [input_tokens |-> self.input_tokens + other.input_tokens,
     output_tokens |-> self.output_tokens + other.output_tokens,
     cache_read_tokens |-> self.cache_read_tokens + other.cache_read_tokens,
     cache_creation_tokens |-> self.cache_creation_tokens]

\* UsageStats.__iadd__
UsageAdd(self, other) ==
    [input_tokens |-> self.input_tokens + other.input_tokens,
     output_tokens |-> self.output_tokens + other.output_tokens,
     cache_read_tokens |-> self.cache_read_tokens + other.cache_read_tokens,
     cache_creation_tokens |-> self.cache_creation_tokens + other.cache_creation_tokens]

(***************************************************************************)
(* Action schema (agent/actions.py)                                        *)
(***************************************************************************)
ActionTags == {"click", "double_click", "type", "press_key", "scroll",
               "drag", "wait", "done", "fail"}

\* the fields of each variant that have no default (the tag has one)
RequiredFields(tag) ==
    CASE tag = "click" -> {"x", "y"}
      [] tag = "double_click" -> {"x", "y"}
      [] tag = "type" -> {"text"}
      [] tag = "press_key" -> {"key"}
      [] tag = "scroll" -> {"x", "y", "delta_y"}
      [] tag = "drag" -> {"from_x", "from_y", "to_x", "to_y"}
      [] tag = "wait" -> {"ms"}
      [] tag = "done" -> {"summary"}
      [] tag = "fail" -> {"reason"}
      [] OTHER -> {}

AgentResponseFields == {"observation", "reasoning", "next_step", "action"}

\* schemas a caller can pass to call_llm: the AgentResponse model, a pydantic
\* model with the two fields of the exhausted-retries default object, a raw
\* JSON schema dict, or none
AgentResponseSchema ==
    [kind |-> "pydantic", required |-> AgentResponseFields, union |-> TRUE]
ReplySchema ==
    [kind |-> "pydantic", required |-> {"text", "continue_conversation"}, union |-> FALSE]
DictSchema == [kind |-> "dict", required |-> {"text"}, union |-> FALSE]
NoSchema == [kind |-> "none", required |-> {}, union |-> FALSE]

(***************************************************************************)
(* Provider replies                                                        *)
(*                                                                         *)
(* A reply text is a sequence of lines; a line is a code fence or carries  *)
(* a document.  A document is JSON or not; a JSON document is the object   *)
(* obj with the top-level keys `keys` and the action keys `akeys`.         *)
(***************************************************************************)
NoDoc == [isjson |-> FALSE, keys |-> {}, akeys |-> {}, obj |-> NoObj]
FenceLine == [fence |-> TRUE, doc |-> NoDoc]
DocLine(doc) == [fence |-> FALSE, doc |-> doc]

\* text.strip() was applied: the first and last lines are what startswith
\* and endswith see
_strip_markdown_code_block(lines) ==
    IF Len(lines) > 0 /\ lines[1].fence /\ lines[Len(lines)].fence
    THEN SubSeq(lines, 2, Len(lines) - 1)
    ELSE IF Len(lines) > 0 /\ lines[1].fence
         THEN SubSeq(lines, 2, Len(lines))
         ELSE lines

\* json.loads succeeds: the text is exactly one JSON document
JsonLoads(lines) == Len(lines) = 1 /\ ~lines[1].fence /\ lines[1].doc.isjson

\* parsing the action through the tagged union
ActionValid(doc) ==
    /\ "action" \in doc.akeys
    /\ doc.obj.action.action \in ActionTags
    /\ RequiredFields(doc.obj.action.action) \subseteq doc.akeys

\* _validate_json_response does not raise
_validate_json_response(doc, json_schema) ==
    /\ json_schema.required \subseteq doc.keys
    /\ json_schema.union => ActionValid(doc)

\* the object of _handle_exhausted_retries
DefaultReplyDoc ==
    [isjson |-> TRUE, keys |-> {"text", "continue_conversation"}, akeys |-> {},
     obj |-> [NoObj EXCEPT !.observation = "Cannot provide answer in appropriate format."]]

\* what one attempt of call_llm does with a provider result
AttemptOutcome(text, json_schema) ==
    IF text.isnone THEN "retry_empty"
    ELSE IF json_schema.kind = "none" THEN "return_text"
    ELSE LET stripped == _strip_markdown_code_block(text.lines)
         IN  IF ~JsonLoads(stripped) THEN "retry_json"
             ELSE IF ~_validate_json_response(stripped[1].doc, json_schema)
                  THEN "retry_schema"
                  ELSE "return_object"

\* _create_retry_message: the three adapters build the same message
_create_retry_message(error_msg) ==
    ConversationMessage(USER, StrContent(
        "Error: " \o error_msg \o ". Please provide a valid JSON response."))

RetryErrorMsg(outcome) ==
    CASE outcome = "retry_empty" -> "Empty response received"
      [] outcome = "retry_json" ->
           "Invalid JSON format. Please provide valid JSON matching the schema."
      [] OTHER ->
           "JSON does not match schema. Please ensure all required fields are present and match the schema."

\* _convert_messages keeps one message per message, with its role and parts
_convert_messages(conversation_history) ==
    [i \in 1..Len(conversation_history) |->
        ConversationMessage(conversation_history[i].role, conversation_history[i].content)]

ExhaustedReturns_AnyModel(json_schema) == json_schema.kind \in {"none", "pydantic"}

\* _handle_exhausted_retries returns (TRUE) or raises ValueError (FALSE)
ExhaustedReturns(json_schema) ==
    \/ json_schema.kind = "none"
    \/ /\ json_schema.kind = "pydantic"
       /\ _validate_json_response(DefaultReplyDoc, json_schema)

ErrorReturns_Never(json_schema) == FALSE

\* _handle_error returns (TRUE) or re-raises (FALSE)
ErrorReturns(json_schema) == json_schema.kind = "none"

(***************************************************************************)
(* State                                                                   *)
(***************************************************************************)
VARIABLES
    env,                 \* which external behaviour (browser, provider, user) is explored
    pc,                  \* position of the process
    exit_code,           \* exit code of the last process, -1 while it runs
    max_steps,           \* run_agent argument
    step, elapsed, conversation, screenshot_counts, screenshot_warnings,
    total_usage,         \* run_agent locals; elapsed is time.monotonic() - start_time
    screenshot_b64, current_url, response, terminal,
    result,              \* the AgentResult returned by run_agent
    json_schema, messages, attempt, call_usage,  \* call_llm locals
    call_log,            \* how each _do_api_call of the current iteration ended
    usage_log,           \* the usage each of them reported
    call_out,            \* what call_llm returned or raised
    files,               \* the session directory: file name -> content
    tmp_path, tmp_seq,   \* save_session: the temp file, and how many were made
    pending,             \* save_session: the state being written
    file_before,         \* session.json as it was when the current save began
    committed,           \* the state of the last step whose save_session completed
    called_steps,        \* the steps of the session for which the provider was called
    browser_log,         \* browser methods awaited in the current iteration
    resumes,             \* how many times the session was resumed
    arg, ret             \* a function called on its own: its argument and result

vars == <<env, pc, exit_code, max_steps, step, elapsed, conversation,
          screenshot_counts, screenshot_warnings, total_usage, screenshot_b64,
          current_url, response, terminal, result, json_schema, messages,
          attempt, call_usage, call_log, usage_log, call_out, files, tmp_path, tmp_seq, pending,
          file_before, committed, called_steps, browser_log, resumes, arg, ret>>

loop_vars == <<max_steps, step, elapsed, conversation, screenshot_counts,
               screenshot_warnings, total_usage, screenshot_b64, current_url,
               response, terminal, result, browser_log, resumes>>
call_vars == <<json_schema, messages, attempt, call_usage, call_log, usage_log,
              call_out>>
file_vars == <<files, tmp_path, tmp_seq, pending, file_before, committed,
              called_steps>>
compress_vars == <<arg, ret>>

ZeroUsage == UsageStats(0, 0, 0, 0)
NoResult == [returned |-> FALSE, success |-> FALSE, summary |-> "",
             steps_taken |-> 0, usage |-> ZeroUsage]
AgentResult(success, summary, steps_taken, usage) ==
    [returned |-> TRUE, success |-> success, summary |-> summary,
     steps_taken |-> steps_taken, usage |-> usage]
\* what call_llm gave its caller: kind "object", "text" or "raise"; an
\* exception carries no usage (with_usage = FALSE)
NoCallOut == [kind |-> "none", doc |-> NoDoc, lines |-> <<>>, error |-> FALSE,
              with_usage |-> FALSE, usage |-> ZeroUsage]
ReturnObject(doc, usage) ==
    [kind |-> "object", doc |-> doc, lines |-> <<>>, error |-> FALSE,
     with_usage |-> TRUE, usage |-> usage]
\* a returned str: the provider's text, "" or "Error: ..." (error = TRUE)
ReturnText(lines, error, usage) ==
    [kind |-> "text", doc |-> NoDoc, lines |-> lines, error |-> error,
     with_usage |-> TRUE, usage |-> usage]
RaiseError ==
    [kind |-> "raise", doc |-> NoDoc, lines |-> <<>>, error |-> TRUE,
     with_usage |-> FALSE, usage |-> ZeroUsage]

\* all screens a browser of the model can show
AllScreens == 1..(FirstRotScreen + RotScreens)
\* hashlib.md5(...).hexdigest(), taken to be free of collisions
Md5(screenshot) == screenshot
EmptyCounter == [h \in AllScreens |-> 0]

SESSION_JSON == "session.json"
NoState ==
    [version |-> 0, status |-> "", last_url |-> "", use_smart_model |-> FALSE,
     max_steps |-> 0, step |-> 0, elapsed_seconds |-> 0,
     screenshot_counts |-> EmptyCounter, screenshot_warnings |-> EmptyCounter,
     conversation |-> <<>>, usage |-> ZeroUsage]
\* a file's content: what was written of the JSON text of data
FileContent(written, data) == [written |-> written, data |-> data]

(***************************************************************************)
(* External behaviour explored                                             *)
(*                                                                         *)
(* env restricts what the browser, the provider and the user do, so that   *)
(* each kind of run stays finite:                                          *)
(*   actions every action variant, every reply valid                       *)
(*   replies every kind of reply, valid or not, and provider errors        *)
(*   crash  the clock, interrupts, crashes and resumes                     *)
(*   stuck  the screen repeats, every reply is a valid click; interrupts   *)
(*          and resumes                                                    *)
(*   long   the screen never repeats five times, every reply a valid scroll*)
(*   call   call_llm on its own, with every schema                         *)
(*   stored the loop is started from a session file found on disk; every   *)
(*          reply is a valid click or done, or the provider raises         *)
(*   live   a step limit is set; replies are valid or not and the provider *)
(*          may raise; the user interrupts only a session that can be      *)
(*          resumed, and resumes it                                        *)
(***************************************************************************)
LoopEnvs == {"actions", "replies", "crash", "stuck", "long", "stored", "live"}

EnvMaxSteps(e) ==
    CASE e \in {"replies", "crash"} -> 0..MaxMaxSteps
      [] e = "stuck" -> {0, _STUCK_SCREENSHOT_LIMIT + MaxWarnings}
      [] e = "live" -> 1..LiveMaxSteps
      [] OTHER -> {0}

EnvStepCap(e) ==
    CASE e \in {"replies", "crash", "stored"} -> ShortCap
      [] e = "actions" -> ActionsCap
      [] e = "stuck" -> StuckCap
      [] e = "live" -> LiveMaxSteps + 1
      [] OTHER -> LongCap

EnvScreens(e, s) ==
    CASE e = "stuck" -> StuckScreens
      [] e = "long" -> {FirstRotScreen + (s % RotScreens)}
      [] OTHER -> {1}

Urls == {"https://example.com/"}

ActionText(tag) ==
    CASE tag = "type" -> "hello"
      [] tag = "press_key" -> "Enter"
      [] tag = "done" -> "Scenario is complete"
      [] tag = "fail" -> "Cannot proceed"
      [] OTHER -> ""

\* a reply document that validates as an AgentResponse with the given action
GoodDoc(tag) ==
    [isjson |-> TRUE, keys |-> AgentResponseFields,
     akeys |-> {"action"} \cup RequiredFields(tag),
     obj |-> [observation |-> "I see the page", reasoning |-> "It is the next thing to do",
              next_step |-> "Doing it",
              action |-> [action |-> tag, ms |-> IF tag = "wait" THEN 500 ELSE 0,
                          text |-> ActionText(tag)]]]
\* JSON documents that do not validate
NoNextStepDoc == [GoodDoc("click") EXCEPT !.keys = @ \ {"next_step"}]
UnknownTagDoc == [GoodDoc("click") EXCEPT !.obj.action.action = "hover"]
NoFieldDoc == [GoodDoc("click") EXCEPT !.akeys = @ \ {"y"}]
\* a document for the two-field reply schema and the dict schema
ReplyDoc == [NoDoc EXCEPT !.isjson = TRUE, !.keys = {"text", "continue_conversation"}]

NoneText == [isnone |-> TRUE, lines |-> <<>>]
Text(lines) == [isnone |-> FALSE, lines |-> lines]
Plain(doc) == Text(<<DocLine(doc)>>)
Fenced(doc) == Text(<<FenceLine, DocLine(doc), FenceLine>>)
OpenFence(doc) == Text(<<FenceLine, DocLine(doc)>>)
TrailingFence(doc) == Text(<<DocLine(doc), FenceLine>>)

U1 == UsageStats(3, 2, 1, 1)
U2 == UsageStats(5, 1, 0, 2)

LlmResult(text, usage) == [raises |-> FALSE, text |-> text, usage |-> usage]
Raises == [raises |-> TRUE, text |-> NoneText, usage |-> ZeroUsage]

\* what _do_api_call may do in each env
EnvReplies(e) ==
    CASE e = "actions" -> {LlmResult(Plain(GoodDoc(tag)), U1) : tag \in ActionTags}
      [] e = "crash" ->
           {LlmResult(Plain(GoodDoc(tag)), U1) : tag \in {"click", "done", "fail"}}
      [] e = "replies" ->
           {LlmResult(Plain(GoodDoc(tag)), U1) : tag \in {"click", "fail"}}
           \cup {LlmResult(t, U1) : t \in {NoneText, Plain(NoDoc), Plain(NoNextStepDoc),
                                           Plain(UnknownTagDoc), Plain(NoFieldDoc),
                                           Fenced(GoodDoc("done")), OpenFence(GoodDoc("click")),
                                           TrailingFence(GoodDoc("click")), Text(<<FenceLine>>)}}
           \cup {Raises}
      [] e = "stuck" -> {LlmResult(Plain(GoodDoc("click")), U1)}
      [] e = "stored" -> {LlmResult(Plain(GoodDoc(tag)), U1) : tag \in {"click", "done"}}
                         \cup {Raises}
      [] e = "long" -> {LlmResult(Plain(GoodDoc("scroll")), U1)}
      [] e = "live" ->
           {LlmResult(Plain(GoodDoc(tag)), U1) : tag \in {"click", "done", "fail"}}
           \cup {LlmResult(NoneText, U1), Raises}
      [] OTHER ->
           {LlmResult(t, u) : t \in {NoneText, Plain(NoDoc), Plain(ReplyDoc),
                                     Plain(GoodDoc("click")), Fenced(ReplyDoc),
                                     Plain(NoNextStepDoc)},
                              u \in {U1, U2}}
           \cup {Raises}

(***************************************************************************)
(* The agent loop (agent/loop.py)                                          *)
(***************************************************************************)
BrowserCall(method, ms) == [method |-> method, ms |-> ms]

\* the browser method the match statement awaits for each variant
BrowserMethod(tag) ==
    CASE tag = "click" -> "click"
      [] tag = "double_click" -> "double_click"
      [] tag = "type" -> "type_text"
      [] tag = "press_key" -> "press_key"
      [] tag = "scroll" -> "scroll"
      [] tag = "drag" -> "drag"
      [] OTHER -> "wait"

_execute_action_SettleAfterWait(act) ==
    CASE act.action \in {"done", "fail"} -> <<>>
      [] act.action = "wait" -> <<BrowserCall("wait", act.ms),
                                  BrowserCall("wait", _POST_ACTION_DELAY_MS)>>
      [] OTHER -> <<BrowserCall(BrowserMethod(act.action), 0),
                    BrowserCall("wait", _POST_ACTION_DELAY_MS)>>

\* the browser calls _execute_action awaits, in order
_execute_action(act) ==
    CASE act.action \in {"done", "fail"} -> <<>>
      [] act.action = "wait" -> <<BrowserCall("wait", act.ms)>>
      [] OTHER -> <<BrowserCall(BrowserMethod(act.action), 0),
                    BrowserCall("wait", _POST_ACTION_DELAY_MS)>>

IsTerminal_DoneOnly(act) == act.action = "done"

\* isinstance(response.action, DoneAction) or isinstance(..., FailAction)
IsTerminal(act) == act.action \in {"done", "fail"}

StepLabel(s, m) ==
    IF m = 0 THEN "Step " \o ToString(s)
    ELSE "Step " \o ToString(s) \o "/" \o ToString(m)

StuckHint(warnings_given, repeat_count) ==
    "\n\nWARNING (" \o ToString(warnings_given) \o "/3): This exact screen has appeared "
    \o ToString(repeat_count) \o " times already. "
    \o "You are stuck. Try a COMPLETELY different approach, or use the fail action if you cannot proceed. "
    \o "You will be force-stopped after 3 warnings."

UserTurn(shot, url, s, m, stuck_hint) ==
    ConversationMessage(USER, PartsContent(
        <<ImageContent(shot, "image/png"),
          TextContent("Current URL: " \o url \o "\n" \o StepLabel(s, m)
                      \o ". What should I do next?" \o stuck_hint)>>))

\* response.model_dump_json() as an assistant message
AssistantTurn(resp) == ConversationMessage(ASSISTANT, JsonContent(resp))

\* the text-only version of a message with parts
OmittedText(content) == "[screenshot omitted] " \o Join(TextParts(content.parts), " ")

\* "Replace previous user messages that had images": conversation[-3]
ElideIndex(conv) == Len(conv) - 2

ElideOld(conv) ==
    IF Len(conv) >= 4
       /\ conv[ElideIndex(conv)].role = USER
       /\ conv[ElideIndex(conv)].content.t = "parts"
    THEN [conv EXCEPT ![ElideIndex(conv)] =
              ConversationMessage(USER, StrContent(OmittedText(conv[ElideIndex(conv)].content)))]
    ELSE conv

AfterResponse_NoCompress(conv, resp) == ElideOld(Append(conv, AssistantTurn(resp)))

\* the conversation after a validated response: append, elide, compress
AfterResponse(conv, resp) ==
    _compress_conversation(ElideOld(Append(conv, AssistantTurn(resp))))

ResumeNote ==
    ConversationMessage(USER, StrContent(
        "Session resumed. The browser has been restarted and navigated to the last known URL. "
        \o "A fresh screenshot will follow. Continue from where you left off."))
ResumeAck ==
    ConversationMessage(ASSISTANT, JsonContent(
        [observation |-> "Session resumed successfully.",
         reasoning |-> "Continuing from the resumed state.",
         next_step |-> "Taking a fresh look at the current page",
         action |-> [action |-> "wait", ms |-> 0, text |-> ""]]))

ResumeInjection_NoAck == <<ResumeNote>>

\* the two messages run_agent appends when it resumes
ResumeInjection == <<ResumeNote, ResumeAck>>

(***************************************************************************)
(* Session files (session.py, main.py)                                     *)
(***************************************************************************)
serialize_conversation_KeepsImages(conv) ==
    [i \in 1..Len(conv) |-> [role |-> conv[i].role, content |-> conv[i].content]]

\* serialize_conversation: a str content as it is, a list content as the
\* placeholder and its text parts
serialize_conversation(conv) ==
    [i \in 1..Len(conv) |->
        IF IsStr(conv[i].content) THEN [role |-> conv[i].role, content |-> conv[i].content]
        ELSE [role |-> conv[i].role, content |-> StrContent(OmittedText(conv[i].content))]]

deserialize_conversation(data) ==
    [i \in 1..Len(data) |-> ConversationMessage(data[i].role, data[i].content)]

StepState_StepBehind(last_url) ==
    [version |-> 1, status |-> "in_progress", last_url |-> last_url,
     use_smart_model |-> FALSE, max_steps |-> max_steps, step |-> step - 1,
     elapsed_seconds |-> elapsed, screenshot_counts |-> screenshot_counts,
     screenshot_warnings |-> screenshot_warnings,
     conversation |-> serialize_conversation(conversation), usage |-> total_usage]

\* the SessionState built by on_step_done; run_agent builds its ResumeState
\* without use_smart_model, which is then the default of the dataclass
StepState(last_url) ==
    [version |-> 1, status |-> "in_progress", last_url |-> last_url,
     use_smart_model |-> FALSE, max_steps |-> max_steps, step |-> step,
     elapsed_seconds |-> elapsed, screenshot_counts |-> screenshot_counts,
     screenshot_warnings |-> screenshot_warnings,
     conversation |-> serialize_conversation(conversation), usage |-> total_usage]

EmptyDir_WithSessionFile ==
    [n \in {"session.json"} |->
        [written |-> "complete",
         data |-> [NoState EXCEPT !.version = 1, !.status = "in_progress"]]]

\* the directory of a new session: args.run_dir.mkdir(...) and nothing else
EmptyDir == [n \in {} |-> FileContent("complete", NoState)]
Exists(fs, name) == name \in DOMAIN fs
WriteFile(fs, name, content) ==
    [n \in DOMAIN fs \cup {name} |-> IF n = name THEN content ELSE fs[n]]
Unlink(fs, name) == [n \in DOMAIN fs \ {name} |-> fs[n]]
Replace_Later(fs, src, dst) == fs

\* Path(src).replace(dst): an atomic rename
Replace(fs, src, dst) ==
    [n \in (DOMAIN fs \ {src}) \cup {dst} |-> IF n = dst THEN fs[src] ELSE fs[n]]
TmpName(k) == "tmp" \o ToString(k) \o ".tmp"
TmpFiles(fs) == DOMAIN fs \ {SESSION_JSON}

DumpTarget_Direct(tmp) == SESSION_JSON

\* the file json.dump writes to in save_session
DumpTarget(tmp) == tmp

SessionFile(fs) ==
    IF Exists(fs, SESSION_JSON) THEN [exists |-> TRUE, content |-> fs[SESSION_JSON]]
    ELSE [exists |-> FALSE, content |-> FileContent("complete", NoState)]

(***************************************************************************)
(* Initial states                                                          *)
(***************************************************************************)
NoLoop ==
    /\ max_steps = 0 /\ step = 0 /\ elapsed = 0 /\ conversation = <<>>
    /\ screenshot_counts = EmptyCounter /\ screenshot_warnings = EmptyCounter
    /\ total_usage = ZeroUsage /\ screenshot_b64 = 0 /\ current_url = ""
    /\ response = NoObj /\ terminal = FALSE /\ result = NoResult
    /\ browser_log = <<>> /\ resumes = 0
NoCall ==
    /\ json_schema = NoSchema /\ messages = <<>> /\ attempt = 0
    /\ call_usage = ZeroUsage /\ call_log = <<>> /\ call_out = NoCallOut
    /\ usage_log = <<>>
NoFiles ==
    /\ files = EmptyDir /\ tmp_path = "" /\ tmp_seq = 0 /\ pending = NoState
    /\ file_before = SessionFile(EmptyDir)
    /\ committed = NoState
    /\ called_steps = {}
NoCompress == arg = <<>> /\ ret = <<>>

\* a fresh `run`: main() made the session directory, run_agent starts
Init ==
    /\ env \in LoopEnvs \ {"stored", "live"}
    /\ pc = "top"
    /\ exit_code = -1
    /\ max_steps \in EnvMaxSteps(env)
    /\ step = 0 /\ elapsed = 0 /\ conversation = <<>>
    /\ screenshot_counts = EmptyCounter /\ screenshot_warnings = EmptyCounter
    /\ total_usage = ZeroUsage /\ screenshot_b64 = 0 /\ current_url = ""
    /\ response = NoObj /\ terminal = FALSE /\ result = NoResult
    /\ browser_log = <<>> /\ resumes = 0
    /\ NoCall /\ NoFiles /\ NoCompress

(***************************************************************************)
(* run_agent: top of an iteration                                          *)
(***************************************************************************)
MaxStepsExceeded_OffByOne(s, m) == m > 0 /\ s > m + 1

MaxStepsExceeded(s, m) == m > 0 /\ s > m
TimedOut_Never(e) == FALSE

\* elapsed > _TIMEOUT_SECONDS
TimedOut(e) == e > _TIMEOUT_SECONDS

Top ==
    /\ pc = "top"
    /\ step < EnvStepCap(env)
    /\ step' = step + 1
    /\ browser_log' = <<>>
    /\ IF MaxStepsExceeded(step + 1, max_steps)
       THEN /\ result' = AgentResult(FALSE, "Max steps (" \o ToString(max_steps) \o ") exceeded",
                                     step, total_usage)
            /\ pc' = "return"
       ELSE IF TimedOut(elapsed)
       THEN /\ result' = AgentResult(FALSE, "Timeout after " \o ToString(elapsed) \o "s",
                                     step, total_usage)
            /\ pc' = "return"
       ELSE /\ result' = result
            /\ pc' = "capture"
    /\ call_log' = <<>>
    /\ usage_log' = <<>>
    /\ UNCHANGED <<env, exit_code, max_steps, elapsed, conversation, screenshot_counts,
                   screenshot_warnings, total_usage, screenshot_b64, current_url,
                   response, terminal, resumes>>
    /\ UNCHANGED <<json_schema, messages, attempt, call_usage, call_out>>
    /\ UNCHANGED <<file_vars, compress_vars>>

(***************************************************************************)
(* run_agent: screenshot, stuck detection, user turn, start of call_llm    *)
(***************************************************************************)
IsStuck_Strict(repeat_count) == repeat_count > _STUCK_SCREENSHOT_LIMIT

IsStuck(repeat_count) == repeat_count >= _STUCK_SCREENSHOT_LIMIT
ForceStop_AfterFour(warnings_given) == warnings_given > MaxWarnings + 1

\* warnings_given > 3
ForceStop(warnings_given) == warnings_given > MaxWarnings

CountCapture_ResetOthers(counts, h) ==
    [g \in DOMAIN counts |-> IF g = h THEN counts[g] + 1 ELSE 0]

\* counter[hash] += 1 on a Counter keyed by hash
CountCapture(counts, h) == [counts EXCEPT ![h] = @ + 1]

WarnCapture_Always(warnings, h, repeat_count) == CountCapture(warnings, h)

\* if repeat_count >= _STUCK_SCREENSHOT_LIMIT: screenshot_warnings[hash] += 1
WarnCapture(warnings, h, repeat_count) ==
    IF IsStuck(repeat_count) THEN CountCapture(warnings, h) ELSE warnings

Capture ==
    /\ pc = "capture"
    /\ \E shot \in EnvScreens(env, step), url \in Urls :
        LET h == Md5(shot)
            repeat_count == screenshot_counts[h] + 1
            warnings_given == screenshot_warnings[h] + 1
            stuck_hint == IF IsStuck(repeat_count)
                          THEN StuckHint(warnings_given, repeat_count) ELSE ""
            conv == Append(conversation, UserTurn(shot, url, step, max_steps, stuck_hint))
        IN  /\ screenshot_b64' = shot
            /\ current_url' = url
            /\ browser_log' = browser_log \o <<BrowserCall("screenshot_base64", 0),
                                                BrowserCall("current_url", 0)>>
            /\ screenshot_counts' = CountCapture(screenshot_counts, h)
            /\ screenshot_warnings' = WarnCapture(screenshot_warnings, h, repeat_count)
            /\ IF IsStuck(repeat_count) /\ ForceStop(warnings_given)
               THEN /\ result' = AgentResult(FALSE, "Force stopped: stuck on the same screen",
                                             step, total_usage)
                    /\ pc' = "return"
                    /\ UNCHANGED <<conversation, call_vars>>
               ELSE /\ conversation' = conv
                    /\ result' = result
                    /\ json_schema' = AgentResponseSchema
                    /\ messages' = _convert_messages(conv)
                    /\ attempt' = 0
                    /\ call_usage' = ZeroUsage
                    /\ call_log' = <<>>
                    /\ usage_log' = <<>>
                    /\ call_out' = NoCallOut
                    /\ pc' = "call_llm"
    /\ UNCHANGED <<env, exit_code, max_steps, step, elapsed, total_usage, response,
                   terminal, resumes>>
    /\ UNCHANGED <<file_vars, compress_vars>>

(***************************************************************************)
(* call_llm (llm_caller/base.py), and what run_agent does with its result  *)
(***************************************************************************)
\* _handle_error: the value call_llm gives after an exception, with the
\* usage collected so far
_handle_error(schema, usage) ==
    IF ErrorReturns(schema) THEN ReturnText(<<>>, TRUE, usage) ELSE RaiseError

\* _handle_exhausted_retries; its ValueError is raised inside the try block
\* of call_llm and so reaches _handle_error
_handle_exhausted_retries(schema, usage) ==
    IF ExhaustedReturns(schema)
    THEN IF schema.kind = "none" THEN ReturnText(<<>>, FALSE, usage)
         ELSE ReturnObject(DefaultReplyDoc, usage)
    ELSE _handle_error(schema, usage)

\* isinstance(response, AgentResponse)
IsAgentResponse(out) ==
    out.kind = "object" /\ _validate_json_response(out.doc, AgentResponseSchema)

FatalError_MarksFailed(fs) ==
    IF Exists(fs, SESSION_JSON)
    THEN WriteFile(fs, SESSION_JSON,
                   FileContent("complete", [fs[SESSION_JSON].data EXCEPT !.status = "failed"]))
    ELSE fs

\* main() catches Exception: it logs, prints the message and exits with 1;
\* the session directory is as it was
FatalError(fs) == fs

\* call_llm is over: out goes to the caller
CallEnds(out, msgs, n, usage, how, reported) ==
    /\ files' = IF env \in LoopEnvs /\ out.kind = "raise" THEN FatalError(files) ELSE files
    /\ messages' = msgs
    /\ attempt' = n
    /\ call_usage' = usage
    /\ call_log' = Append(call_log, how)
    /\ usage_log' = usage_log \o reported
    /\ call_out' = out
    /\ json_schema' = json_schema
    /\ IF env \notin LoopEnvs
       THEN /\ pc' = "call_done"
            /\ UNCHANGED <<exit_code, loop_vars>>
       ELSE IF out.kind = "raise"
       THEN \* the exception leaves run_agent and _run; main() exits with 1
            /\ pc' = "exited"
            /\ exit_code' = 1
            /\ UNCHANGED loop_vars
       ELSE IF ~IsAgentResponse(out)
       THEN /\ total_usage' = UsageAdd(total_usage, out.usage)
            /\ result' = AgentResult(FALSE, "Unexpected LLM response", step,
                                     UsageAdd(total_usage, out.usage))
            /\ pc' = "return"
            /\ UNCHANGED <<exit_code, max_steps, step, elapsed, conversation,
                           screenshot_counts, screenshot_warnings, screenshot_b64,
                           current_url, response, terminal, browser_log, resumes>>
       ELSE /\ total_usage' = UsageAdd(total_usage, out.usage)
            /\ response' = out.doc.obj
            /\ conversation' = AfterResponse(conversation, out.doc.obj)
            /\ terminal' = IsTerminal(out.doc.obj.action)
            /\ pc' = IF IsTerminal(out.doc.obj.action) THEN "checkpoint" ELSE "execute"
            /\ UNCHANGED <<exit_code, max_steps, step, elapsed, screenshot_counts,
                           screenshot_warnings, screenshot_b64, current_url, result,
                           browser_log, resumes>>

MoreAttempts_OneMore(n) == n <= MAX_RETRIES

\* for attempt in range(self.MAX_RETRIES): n is in the range
MoreAttempts(n) == n < MAX_RETRIES

AppendRetryMessage_Twice(msgs, outcome) ==
    Append(Append(msgs, _create_retry_message(RetryErrorMsg(outcome))),
           _create_retry_message(RetryErrorMsg(outcome)))

\* messages.append(self._create_retry_message(...)) on the list that
\* _convert_messages built
AppendRetryMessage(msgs, outcome) ==
    Append(msgs, _create_retry_message(RetryErrorMsg(outcome)))

\* one pass of the retry loop: one _do_api_call and what follows it
ApiCall ==
    /\ pc = "call_llm"
    /\ MoreAttempts(attempt)
    /\ \E r \in EnvReplies(env) :
        IF r.raises
        THEN CallEnds(_handle_error(json_schema, call_usage), messages, attempt + 1,
                      call_usage, "raise", <<>>)
        ELSE LET usage == UsageAdd(call_usage, r.usage)
                 outcome == AttemptOutcome(r.text, json_schema)
                 retry == AppendRetryMessage(messages, outcome)
             IN  CASE outcome = "return_text" ->
                        CallEnds(ReturnText(r.text.lines, FALSE, usage), messages,
                                 attempt + 1, usage, outcome, <<r.usage>>)
                   [] outcome = "return_object" ->
                        CallEnds(ReturnObject(_strip_markdown_code_block(r.text.lines)[1].doc, usage),
                                 messages, attempt + 1, usage, outcome, <<r.usage>>)
                   [] OTHER ->
                        IF MoreAttempts(attempt + 1)
                        THEN /\ messages' = retry
                             /\ attempt' = attempt + 1
                             /\ call_usage' = usage
                             /\ call_log' = Append(call_log, outcome)
                             /\ usage_log' = Append(usage_log, r.usage)
                             /\ UNCHANGED <<pc, exit_code, json_schema, call_out, loop_vars,
                                            files>>
                        ELSE CallEnds(_handle_exhausted_retries(json_schema, usage), retry,
                                      attempt + 1, usage, outcome, <<r.usage>>)
    /\ called_steps' = IF env \in LoopEnvs THEN called_steps \cup {step} ELSE called_steps
    /\ UNCHANGED <<env, tmp_path, tmp_seq, pending, file_before, committed,
                   compress_vars>>

\* time passes while the provider is awaited
Tick ==
    /\ pc = "call_llm"
    /\ attempt = 0
    /\ env = "crash"
    /\ elapsed < MaxElapsed
    /\ elapsed' = elapsed + TickSeconds
    /\ UNCHANGED <<env, pc, exit_code, max_steps, step, conversation, screenshot_counts,
                   screenshot_warnings, total_usage, screenshot_b64, current_url,
                   response, terminal, result, browser_log, resumes>>
    /\ UNCHANGED <<call_vars, file_vars, compress_vars>>

(***************************************************************************)
(* run_agent: the browser action                                           *)
(***************************************************************************)
Execute ==
    /\ pc = "execute"
    /\ browser_log' = browser_log \o SubSeq(_execute_action(response.action), 1, 1)
    /\ pc' = IF Len(_execute_action(response.action)) > 1 THEN "settle" ELSE "checkpoint"
    /\ UNCHANGED <<env, exit_code, max_steps, step, elapsed, conversation,
                   screenshot_counts, screenshot_warnings, total_usage, screenshot_b64,
                   current_url, response, terminal, result, resumes>>
    /\ UNCHANGED <<call_vars, file_vars, compress_vars>>

Settle ==
    /\ pc = "settle"
    /\ browser_log' = Append(browser_log, _execute_action(response.action)[2])
    /\ pc' = "checkpoint"
    /\ UNCHANGED <<env, exit_code, max_steps, step, elapsed, conversation,
                   screenshot_counts, screenshot_warnings, total_usage, screenshot_b64,
                   current_url, response, terminal, result, resumes>>
    /\ UNCHANGED <<call_vars, file_vars, compress_vars>>

(***************************************************************************)
(* on_step_done (main.py) and save_session (session.py)                    *)
(***************************************************************************)
SavePcs == {"save_write", "save_flush", "save_replace"}

\* on_step_done builds the SessionState; save_session makes the temp file
Checkpoint ==
    /\ pc = "checkpoint"
    /\ \E url \in Urls :
        /\ pending' = StepState(IF terminal THEN current_url ELSE url)
        /\ browser_log' = IF terminal THEN browser_log
                          ELSE Append(browser_log, BrowserCall("current_url", 0))
    /\ tmp_seq' = tmp_seq + 1
    /\ tmp_path' = TmpName(tmp_seq + 1)
    /\ files' = WriteFile(files, TmpName(tmp_seq + 1), FileContent("empty", NoState))
    /\ file_before' = SessionFile(files)
    /\ committed' = committed
    /\ called_steps' = called_steps
    /\ pc' = "save_write"
    /\ UNCHANGED <<env, exit_code, max_steps, step, elapsed, conversation,
                   screenshot_counts, screenshot_warnings, total_usage, screenshot_b64,
                   current_url, response, terminal, result, resumes>>
    /\ UNCHANGED <<call_vars, compress_vars>>

\* json.dump has written part of the text
SaveWrite ==
    /\ pc = "save_write"
    /\ files' = WriteFile(files, DumpTarget(tmp_path), FileContent("partial", pending))
    /\ pc' = "save_flush"
    /\ UNCHANGED <<env, exit_code, loop_vars, call_vars, compress_vars,
                   tmp_path, tmp_seq, pending, file_before, committed, called_steps>>

\* json.dump has written all of it and the file is closed
SaveFlush ==
    /\ pc = "save_flush"
    /\ files' = WriteFile(files, DumpTarget(tmp_path), FileContent("complete", pending))
    /\ pc' = "save_replace"
    /\ UNCHANGED <<env, exit_code, loop_vars, call_vars, compress_vars,
                   tmp_path, tmp_seq, pending, file_before, committed, called_steps>>

\* Path(tmp_path).replace(session_file); then run_agent goes on or returns
SaveReplace ==
    /\ pc = "save_replace"
    /\ files' = Replace(files, tmp_path, SESSION_JSON)
    /\ IF terminal
       THEN /\ result' = AgentResult(response.action.action = "done", response.action.text,
                                     step, total_usage)
            /\ pc' = "return"
       ELSE /\ result' = result
            /\ pc' = "top"
    /\ UNCHANGED <<env, exit_code, max_steps, step, elapsed, conversation,
                   screenshot_counts, screenshot_warnings, total_usage, screenshot_b64,
                   current_url, response, terminal, browser_log, resumes>>
    /\ committed' = pending
    /\ called_steps' = called_steps
    /\ UNCHANGED <<call_vars, compress_vars, tmp_path, tmp_seq, pending, file_before>>

(***************************************************************************)
(* main(): the end of a process                                            *)
(***************************************************************************)
FinalStatus_AlwaysDone(res) == "done"

\* the status _save_final_status writes
FinalStatus(res) == IF res.success THEN "done" ELSE "failed"

\* run_agent returned: _save_final_status, then exit
Finalize ==
    /\ pc = "return"
    /\ files' = IF Exists(files, SESSION_JSON)
                THEN WriteFile(files, SESSION_JSON,
                         FileContent("complete",
                             [files[SESSION_JSON].data EXCEPT
                                 !.status = FinalStatus(result),
                                 !.step = result.steps_taken,
                                 !.usage = result.usage]))
                ELSE files
    /\ exit_code' = IF result.success THEN 0 ELSE 1
    /\ pc' = "exited"
    /\ UNCHANGED <<env, loop_vars, call_vars, compress_vars,
                   tmp_path, tmp_seq, pending, file_before, committed, called_steps>>

\* the process is gone, and with it what it held in memory
MemoryLost ==
    /\ max_steps' = 0 /\ step' = 0 /\ elapsed' = 0 /\ conversation' = <<>>
    /\ screenshot_counts' = EmptyCounter /\ screenshot_warnings' = EmptyCounter
    /\ total_usage' = ZeroUsage /\ screenshot_b64' = 0 /\ current_url' = ""
    /\ response' = NoObj /\ terminal' = FALSE /\ result' = NoResult
    /\ browser_log' = <<>>
    /\ json_schema' = NoSchema /\ messages' = <<>> /\ attempt' = 0
    /\ call_usage' = ZeroUsage /\ call_log' = <<>> /\ call_out' = NoCallOut
    /\ usage_log' = <<>>

RunningPcs == {"top", "capture", "call_llm", "execute", "settle", "checkpoint"} \cup SavePcs

\* KeyboardInterrupt inside asyncio.run; inside save_session's try block
\* the except clause removes the temp file and raises again
Interrupt ==
    /\ pc \in RunningPcs \cup {"return"}
    /\ env \in {"replies", "crash", "long", "stored", "stuck", "live"}
    /\ env = "live" => Exists(files, SESSION_JSON) /\ resumes < MaxResumes
    /\ files' = IF pc \in SavePcs THEN Unlink(files, tmp_path) ELSE files
    /\ pc' = IF pc \in SavePcs THEN "save_interrupted" ELSE "interrupted"
    /\ MemoryLost
    /\ tmp_path' = "" /\ pending' = NoState
    /\ UNCHANGED <<env, exit_code, resumes, compress_vars, tmp_seq, file_before, committed, called_steps>>

InterruptedData_Failed(data) == [data EXCEPT !.status = "failed"]

\* data["status"] = "interrupted"
InterruptedData(data) == [data EXCEPT !.status = "interrupted"]

\* main() catches KeyboardInterrupt: it marks the session file interrupted
\* and exits with 130
MarkInterrupted ==
    /\ pc \in {"interrupted", "save_interrupted"}
    /\ files' = IF Exists(files, SESSION_JSON)
                THEN WriteFile(files, SESSION_JSON,
                         FileContent("complete", InterruptedData(files[SESSION_JSON].data)))
                ELSE files
    /\ exit_code' = 130
    /\ pc' = "exited"
    /\ UNCHANGED <<env, loop_vars, call_vars, compress_vars,
                   tmp_path, tmp_seq, pending, file_before, committed, called_steps>>

\* the process is killed or the machine stops: nothing more is written;
\* tmp_path and pending go on naming the save that was cut short, if any
Kill ==
    /\ pc \in RunningPcs \cup {"return"}
    /\ env = "crash"
    /\ exit_code' = 137
    /\ pc' = "exited"
    /\ MemoryLost
    /\ IF pc \in SavePcs THEN UNCHANGED <<tmp_path, pending>>
       ELSE tmp_path' = "" /\ pending' = NoState
    /\ UNCHANGED <<env, resumes, compress_vars, files, tmp_seq, file_before, committed, called_steps>>

Resumable_NotDone(status) == status # "done"

\* session.status in ("in_progress", "interrupted")
Resumable(status) == status \in {"in_progress", "interrupted"}

\* load_session succeeds
Loadable(fs) ==
    /\ Exists(fs, SESSION_JSON)
    /\ fs[SESSION_JSON].written = "complete"
    /\ fs[SESSION_JSON].data.version = 1

build_resume_state_NoUsage(session) ==
    [step |-> session.step,
     elapsed_seconds |-> session.elapsed_seconds,
     screenshot_counts |-> session.screenshot_counts,
     screenshot_warnings |-> session.screenshot_warnings,
     conversation |-> deserialize_conversation(session.conversation),
     last_url |-> session.last_url,
     usage |-> ZeroUsage]

\* the ResumeState made from a loaded SessionState
build_resume_state(session) ==
    [step |-> session.step,
     elapsed_seconds |-> session.elapsed_seconds,
     screenshot_counts |-> session.screenshot_counts,
     screenshot_warnings |-> session.screenshot_warnings,
     conversation |-> deserialize_conversation(session.conversation),
     last_url |-> session.last_url,
     usage |-> session.usage]

ResumeMaxSteps_FromHere(session) == session.max_steps + session.step

\* args.max_steps = session.max_steps
ResumeMaxSteps(session) == session.max_steps

\* `resume`, or `run --session` on an existing session: load_session,
\* build_resume_state, and the start of run_agent with resume
Resume ==
    /\ pc = "exited"
    /\ env \in {"crash", "long", "stored", "stuck", "live"}
    /\ resumes < MaxResumes
    /\ Loadable(files)
    /\ Resumable(files[SESSION_JSON].data.status)
    /\ LET session == files[SESSION_JSON].data
           resume == build_resume_state(session)
       IN  /\ max_steps' = ResumeMaxSteps(session)
           /\ step' = resume.step
           /\ elapsed' = resume.elapsed_seconds
           /\ screenshot_counts' = resume.screenshot_counts
           /\ screenshot_warnings' = resume.screenshot_warnings
           /\ total_usage' = resume.usage
           /\ conversation' = resume.conversation \o ResumeInjection
    /\ resumes' = resumes + 1
    /\ pc' = "top"
    /\ exit_code' = -1
    /\ screenshot_b64' = 0 /\ current_url' = "" /\ response' = NoObj
    /\ terminal' = FALSE /\ result' = NoResult /\ browser_log' = <<>>
    /\ json_schema' = NoSchema /\ messages' = <<>> /\ attempt' = 0
    /\ call_usage' = ZeroUsage /\ call_log' = <<>> /\ call_out' = NoCallOut
    /\ usage_log' = <<>>
    /\ tmp_path' = "" /\ pending' = NoState /\ file_before' = SessionFile(files)
    /\ UNCHANGED <<env, files, tmp_seq, committed, called_steps, compress_vars>>

\* `resume`, or `run --session`, on a session that is done or failed:
\* main() prints the error and exits with 1 before _run is entered
ResumeRefused ==
    /\ pc = "exited"
    /\ env \in {"crash", "long"}
    /\ Loadable(files)
    /\ ~Resumable(files[SESSION_JSON].data.status)
    /\ exit_code' = 1
    /\ UNCHANGED <<env, pc, loop_vars, call_vars, file_vars, compress_vars>>

Next ==
    \/ Top
    \/ Capture
    \/ ApiCall
    \/ Tick
    \/ Execute
    \/ Settle
    \/ Checkpoint
    \/ SaveWrite
    \/ SaveFlush
    \/ SaveReplace
    \/ Finalize
    \/ Interrupt
    \/ MarkInterrupted
    \/ Kill
    \/ Resume
    \/ ResumeRefused

Spec == Init /\ [][Next]_vars

(***************************************************************************)
(* The loop with a step limit, under fair scheduling                       *)
(*                                                                         *)
(* run_agent is one coroutine: when the browser or provider call it awaits *)
(* returns, its next statement runs, so a step that stays possible is      *)
(* taken (RunStep).  A user who interrupted the session resumes it         *)
(* (UserStep).                                                             *)
(***************************************************************************)
InitLive ==
    /\ env = "live"
    /\ pc = "top"
    /\ exit_code = -1
    /\ max_steps \in EnvMaxSteps(env)
    /\ step = 0 /\ elapsed = 0 /\ conversation = <<>>
    /\ screenshot_counts = EmptyCounter /\ screenshot_warnings = EmptyCounter
    /\ total_usage = ZeroUsage /\ screenshot_b64 = 0 /\ current_url = ""
    /\ response = NoObj /\ terminal = FALSE /\ result = NoResult
    /\ browser_log = <<>> /\ resumes = 0
    /\ NoCall /\ NoFiles /\ NoCompress

RunStep ==
    \/ Top
    \/ Capture
    \/ ApiCall
    \/ Execute
    \/ Settle
    \/ Checkpoint
    \/ SaveWrite
    \/ SaveFlush
    \/ SaveReplace
    \/ Finalize

UserStep ==
    \/ MarkInterrupted
    \/ Resume

NextLive ==
    \/ RunStep
    \/ Interrupt
    \/ UserStep

SpecLive == InitLive /\ [][NextLive]_vars /\ WF_vars(RunStep) /\ WF_vars(UserStep)

(***************************************************************************)
(* call_llm called on its own, with each kind of schema                    *)
(***************************************************************************)
Schemas == {AgentResponseSchema, ReplySchema, DictSchema, NoSchema}

Question == ConversationMessage(USER, StrContent("What is on the page?"))
Answer == ConversationMessage(ASSISTANT, StrContent("A login form."))
Histories == {<<Question>>,
              <<Question, Answer, Question>>,
              <<UserTurn(1, "https://example.com/", 1, 0, "")>>}

InitCall ==
    /\ env = "call"
    /\ pc = "call_start"
    /\ exit_code = -1
    /\ conversation \in Histories
    /\ json_schema \in Schemas
    /\ max_steps = 0 /\ step = 0 /\ elapsed = 0
    /\ screenshot_counts = EmptyCounter /\ screenshot_warnings = EmptyCounter
    /\ total_usage = ZeroUsage /\ screenshot_b64 = 0 /\ current_url = ""
    /\ response = NoObj /\ terminal = FALSE /\ result = NoResult
    /\ browser_log = <<>> /\ resumes = 0
    /\ messages = <<>> /\ attempt = 0 /\ call_usage = ZeroUsage
    /\ call_log = <<>> /\ call_out = NoCallOut /\ usage_log = <<>>
    /\ NoFiles /\ NoCompress

\* call_llm up to the retry loop
CallStart ==
    /\ pc = "call_start"
    /\ messages' = _convert_messages(conversation)
    /\ call_usage' = ZeroUsage
    /\ pc' = "call_llm"
    /\ UNCHANGED <<env, exit_code, loop_vars, json_schema, attempt, call_log, usage_log,
                   call_out, file_vars, compress_vars>>

NextCall ==
    \/ CallStart
    \/ ApiCall

SpecCall == InitCall /\ [][NextCall]_vars

(***************************************************************************)
(* _compress_conversation called on its own                                *)
(***************************************************************************)
RECURSIVE Repeat(_, _)
Repeat(str, n) == IF n = 0 THEN "" ELSE str \o Repeat(str, n - 1)
\* longer than the 150 characters a summary line keeps
LongText == Repeat("0123456789", 16)

TagOf(i) ==
    CASE i % 4 = 0 -> "click"
      [] i % 4 = 1 -> "type"
      [] i % 4 = 2 -> "scroll"
      [] OTHER -> "wait"

\* the i-th message of a generated conversation
GenMessage(kind, i) ==
    LET first == IF kind = "assistant_first" THEN ASSISTANT ELSE USER
        second == IF kind = "assistant_first" THEN USER ELSE ASSISTANT
        role == IF i % 2 = 1 THEN first ELSE second
        obj == [GoodDoc(TagOf(i)).obj EXCEPT
                   !.observation = IF i % 3 = 0 THEN LongText ELSE "Page " \o ToString(i)]
    IN  IF role = USER
        THEN IF kind = "parts"
             THEN UserTurn(i, "https://example.com/", i, 0, "")
             ELSE ConversationMessage(USER, StrContent("[screenshot omitted] Step " \o ToString(i)))
        ELSE CASE kind = "raw" ->
                    ConversationMessage(ASSISTANT, StrContent(LongText \o ToString(i)))
               [] kind = "parts" /\ i % 4 = 0 ->
                    ConversationMessage(ASSISTANT, PartsContent(<<TextContent("ok")>>))
               [] OTHER -> AssistantTurn(obj)

GenConversation(kind, n) == [i \in 1..n |-> GenMessage(kind, i)]

ConversationKinds == {"turns", "assistant_first", "raw", "parts"}

InitCompress ==
    /\ env = "compress"
    /\ pc = "compress"
    /\ exit_code = -1
    /\ \E kind \in ConversationKinds, n \in 0..MaxConvLen : arg = GenConversation(kind, n)
    /\ ret = <<>>
    /\ NoLoop /\ NoCall /\ NoFiles

Compress ==
    /\ pc = "compress"
    /\ ret' = _compress_conversation(arg)
    /\ pc' = "compressed"
    /\ UNCHANGED <<env, exit_code, loop_vars, call_vars, file_vars, arg>>

\* the result is given to _compress_conversation again
CompressAgain ==
    /\ pc = "compressed"
    /\ arg' = ret
    /\ ret' = _compress_conversation(ret)
    /\ pc' = "compressed_again"
    /\ UNCHANGED <<env, exit_code, loop_vars, call_vars, file_vars>>

NextCompress ==
    \/ Compress
    \/ CompressAgain

SpecCompress == InitCompress /\ [][NextCompress]_vars

(***************************************************************************)
(* The loop started from a session file found on disk                      *)
(***************************************************************************)
\* a session.json as save_session writes it for a session of one completed
\* step, with either value of use_smart_model and a status that resumes
StoredState(status, flag) ==
    [version |-> 1, status |-> status, last_url |-> "https://example.com/",
     use_smart_model |-> flag, max_steps |-> 0, step |-> 1,
     elapsed_seconds |-> 0,
     screenshot_counts |-> [EmptyCounter EXCEPT ![Md5(1)] = 1],
     screenshot_warnings |-> EmptyCounter,
     conversation |-> serialize_conversation(
         <<UserTurn(1, "https://example.com/", 1, 0, ""),
           AssistantTurn(GoodDoc("click").obj)>>),
     usage |-> U1]

\* `resume` is about to be run on the stored session
InitStored ==
    /\ env = "stored"
    /\ pc = "exited"
    /\ exit_code = -1
    /\ NoLoop /\ NoCall /\ NoCompress
    /\ \E status \in {"in_progress", "interrupted"}, flag \in BOOLEAN :
          /\ files = WriteFile(EmptyDir, SESSION_JSON,
                               FileContent("complete", StoredState(status, flag)))
          /\ committed = StoredState(status, flag)
          /\ called_steps = 1..StoredState(status, flag).step
    /\ tmp_path = "" /\ tmp_seq = 1 /\ pending = NoState
    /\ file_before = SessionFile(files)

NextStored ==
    \/ Resume
    \/ Top
    \/ Capture
    \/ ApiCall
    \/ Execute
    \/ Settle
    \/ Checkpoint
    \/ SaveWrite
    \/ SaveFlush
    \/ SaveReplace
    \/ Finalize
    \/ Interrupt
    \/ MarkInterrupted

SpecStored == InitStored /\ [][NextStored]_vars

(***************************************************************************)
(* save_session, load_session and find_latest_session called on their own  *)
(*                                                                         *)
(* Here a SessionState has all its fields, a session file holds the JSON   *)
(* object that json.dump wrote, and a directory name is the sequence of    *)
(* its characters.                                                         *)
(***************************************************************************)
\* Python's None
None == "None"

JsonNull == [j |-> "null", v |-> 0]
JsonValue(type, v) == [j |-> type, v |-> v]

\* the JSON type json.dump gives to the value of a key of the session
\* object, by the annotation of the SessionState field it comes from
JsonType(key) ==
    CASE key \in {"version", "max_steps", "step", "elapsed_seconds"} -> "number"
      [] key \in {"use_smart_model", "headless", "pause"} -> "boolean"
      [] key \in {"viewport", "screenshot_counts", "screenshot_warnings", "usage"} -> "object"
      [] key = "conversation" -> "array"
      [] OTHER -> "string"

\* json.dump(data, f): one member per key, None written as null
json_dump(data) ==
    [k \in DOMAIN data |->
        IF k = "fallback_model" /\ data[k] = None THEN JsonNull
        ELSE JsonValue(JsonType(k), data[k])]

\* json.loads(text): null read as None
json_loads(text) ==
    [k \in DOMAIN text |-> IF text[k].j = "null" THEN None ELSE text[k].v]

\* the dict save_session builds from the state
SessionData(state) ==
    [version |-> state.version,
     status |-> state.status,
     url |-> state.url,
     last_url |-> state.last_url,
     scenario |-> state.scenario,
     model |-> state.model,
     fallback_model |-> state.fallback_model,
     use_smart_model |-> state.use_smart_model,
     viewport |-> state.viewport,
     headless |-> state.headless,
     pause |-> state.pause,
     max_steps |-> state.max_steps,
     step |-> state.step,
     elapsed_seconds |-> state.elapsed_seconds,
     screenshot_counts |-> state.screenshot_counts,
     screenshot_warnings |-> state.screenshot_warnings,
     conversation |-> state.conversation,
     usage |-> state.usage]

EmptyDict == [k \in {} |-> 0]

Get_AlwaysDefault(data, key, default) == default

\* data.get(key, default)
Get(data, key, default) == IF key \in DOMAIN data THEN data[key] ELSE default

\* the keys load_session reads with data[...]
RequiredKeys ==
    {"version", "status", "url", "last_url", "scenario", "model", "viewport",
     "headless", "max_steps", "step", "elapsed_seconds", "screenshot_counts",
     "screenshot_warnings", "conversation"}

\* the SessionState load_session builds from the parsed object
SessionFromData(data) ==
    [version |-> data["version"],
     status |-> data["status"],
     url |-> data["url"],
     last_url |-> data["last_url"],
     scenario |-> data["scenario"],
     model |-> data["model"],
     viewport |-> data["viewport"],
     headless |-> data["headless"],
     pause |-> Get(data, "pause", FALSE),
     max_steps |-> data["max_steps"],
     step |-> data["step"],
     elapsed_seconds |-> data["elapsed_seconds"],
     screenshot_counts |-> data["screenshot_counts"],
     screenshot_warnings |-> data["screenshot_warnings"],
     conversation |-> data["conversation"],
     usage |-> Get(data, "usage", EmptyDict),
     fallback_model |-> Get(data, "fallback_model", None),
     use_smart_model |-> Get(data, "use_smart_model", FALSE)]

\* what a function called on its own gave: a value or an exception
NoReturn == <<>>
Returned(value) == [raised |-> "", value |-> value]
Raised(exception) == [raised |-> exception, value |-> None]

VersionSupported_Any(data) == TRUE

\* not (data.get("version") != 1)
VersionSupported(data) == "version" \in DOMAIN data /\ data["version"] = 1

\* load_session(session_dir); a file that was not written to its end is not
\* JSON and json.loads raises
load_session(fs) ==
    IF ~Exists(fs, SESSION_JSON) THEN Raised("FileNotFoundError")
    ELSE IF fs[SESSION_JSON].written # "complete" THEN Raised("JSONDecodeError")
    ELSE LET data == json_loads(fs[SESSION_JSON].data)
         IN  IF ~VersionSupported(data) THEN Raised("ValueError")
             ELSE IF ~(RequiredKeys \subseteq DOMAIN data) THEN Raised("KeyError")
             ELSE Returned(SessionFromData(data))

\* a < b for names, as str compares: character by character, a proper
\* prefix first
RECURSIVE LexLess(_, _)
LexLess(a, b) ==
    IF b = <<>> THEN FALSE
    ELSE IF a = <<>> THEN TRUE
    ELSE IF a[1] # b[1] THEN a[1] < b[1]
    ELSE LexLess(Tail(a), Tail(b))

FirstSorted_Ascending(names) ==
    CHOOSE n \in names : \A m \in names \ {n} : LexLess(n, m)

\* the first of sorted(names, reverse=True)
FirstSorted(names) ==
    CHOOSE n \in names : \A m \in names \ {n} : LexLess(m, n)

\* the body of the for loop of find_latest_session does not `continue`
ReturnsDir(dir) ==
    /\ Exists(dir, SESSION_JSON)
    /\ dir[SESSION_JSON].written = "complete"
    /\ Get(json_loads(dir[SESSION_JSON].data), "status", None)
           \in {"in_progress", "interrupted"}

\* the for loop of find_latest_session over the names not yet visited
RECURSIVE ScanDirs(_, _)
ScanDirs(names, dirs) ==
    IF names = {} THEN Raised("FileNotFoundError")
    ELSE LET session_dir == FirstSorted(names)
         IN  IF ReturnsDir(dirs[session_dir]) THEN Returned(session_dir)
             ELSE ScanDirs(names \ {session_dir}, dirs)

\* find_latest_session() on the sessions directory
find_latest_session(sessions) ==
    IF ~sessions.exists THEN Raised("FileNotFoundError")
    ELSE ScanDirs(DOMAIN sessions.dirs, sessions.dirs)

\* the states given to save_session
SerializedTurns ==
    serialize_conversation(<<UserTurn(1, "https://example.com/", 1, 0, ""),
                             AssistantTurn(GoodDoc("click").obj)>>)
SessionStates ==
    {[version |-> v, status |-> st, url |-> "https://example.com",
      last_url |-> "https://example.com/page1", scenario |-> "Test scenario",
      model |-> "claude-haiku", fallback_model |-> fb, use_smart_model |-> sm,
      viewport |-> [width |-> 1280, height |-> 720], headless |-> hp, pause |-> ~hp,
      max_steps |-> 10, step |-> Len(conv) \div 2, elapsed_seconds |-> 45,
      screenshot_counts |-> sc, screenshot_warnings |-> EmptyDict,
      conversation |-> conv, usage |-> U1] :
        v \in {1, 2}, st \in {"in_progress", "interrupted", "done", "failed"},
        fb \in {None, "claude-sonnet"}, sm \in BOOLEAN, hp \in BOOLEAN,
        sc \in {EmptyDict, [h \in {"abc123"} |-> 2]},
        conv \in {<<>>, SerializedTurns}}

OneState == CHOOSE s \in SessionStates : s.version = 1 /\ s.status = "in_progress"

\* a session object without the optional keys
MinimalData ==
    [k \in RequiredKeys |-> SessionData(OneState)[k]]

DirWith(written, data) ==
    WriteFile(EmptyDir, SESSION_JSON, FileContent(written, json_dump(data)))

\* the session directories load_session and save_session are tried on
SessionDirs ==
    {EmptyDir,
     DirWith("complete", SessionData(OneState)),
     DirWith("complete", MinimalData),
     DirWith("complete", [version |-> 999]),
     DirWith("complete", [version |-> 1]),
     DirWith("complete", [status |-> "in_progress"]),
     DirWith("partial", SessionData(OneState))}

\* directory names: "1", "10", "2"
DirNames == {<<1>>, <<1, 0>>, <<2>>}
DirKinds == {"absent", "nofile", "unparsable", "nostatus",
             "in_progress", "interrupted", "done", "failed"}

DirOfKind(kind) ==
    CASE kind = "nofile" -> EmptyDir
      [] kind = "unparsable" -> DirWith("partial", SessionData(OneState))
      [] kind = "nostatus" -> DirWith("complete", [version |-> 1])
      [] OTHER -> DirWith("complete", [SessionData(OneState) EXCEPT !.status = kind])

\* the sessions directories find_latest_session is tried on
SessionsDirs ==
    {[exists |-> FALSE, dirs |-> EmptyDir]}
    \cup {[exists |-> TRUE,
           dirs |-> [n \in {m \in DirNames : e[m] # "absent"} |-> DirOfKind(e[n])]] :
             e \in [DirNames -> DirKinds]}

InitSession ==
    /\ env = "session"
    /\ exit_code = -1
    /\ NoLoop /\ NoCall
    /\ tmp_path = "" /\ tmp_seq = 0 /\ pending = NoState
    /\ file_before = SessionFile(EmptyDir) /\ committed = NoState
    /\ called_steps = {}
    /\ ret = NoReturn
    /\ \/ pc = "session_start" /\ arg \in SessionStates /\ files \in SessionDirs
       \/ pc = "find_start" /\ arg \in SessionsDirs /\ files = EmptyDir

\* save_session(session_dir, state), from mkstemp to replace
SaveSession ==
    /\ pc = "session_start"
    /\ tmp_seq' = tmp_seq + 1
    /\ files' = Replace(WriteFile(files, TmpName(tmp_seq + 1),
                                  FileContent("complete", json_dump(SessionData(arg)))),
                        TmpName(tmp_seq + 1), SESSION_JSON)
    /\ pc' = "saved"
    /\ UNCHANGED <<env, exit_code, loop_vars, call_vars, arg, ret,
                   tmp_path, pending, file_before, committed, called_steps>>

\* load_session(session_dir), on the directory as given or after the save
LoadSession ==
    /\ pc \in {"session_start", "saved"}
    /\ ret' = load_session(files)
    /\ pc' = IF pc = "saved" THEN "reloaded" ELSE "loaded"
    /\ UNCHANGED <<env, exit_code, loop_vars, call_vars, file_vars, arg>>

FindLatest ==
    /\ pc = "find_start"
    /\ ret' = find_latest_session(arg)
    /\ pc' = "found"
    /\ UNCHANGED <<env, exit_code, loop_vars, call_vars, file_vars, arg>>

NextSession ==
    \/ SaveSession
    \/ LoadSession
    \/ FindLatest

SpecSession == InitSession /\ [][NextSession]_vars

(***************************************************************************)
(* The action models on their own (agent/actions.py): parsing a JSON       *)
(* object through the tagged union, and model_dump_json                    *)
(*                                                                         *)
(* A JSON object is a function from its keys to their values; an instance  *)
(* is its class and the values of its fields other than the tag.           *)
(***************************************************************************)
ActionClasses ==
    {"ClickAction", "DoubleClickAction", "TypeAction", "PressKeyAction",
     "ScrollAction", "WaitAction", "DragAction", "DoneAction", "FailAction"}

\* the default of the field `action` of each class
ActionTag(class) ==
    CASE class = "ClickAction" -> "click"
      [] class = "DoubleClickAction" -> "double_click"
      [] class = "TypeAction" -> "type"
      [] class = "PressKeyAction" -> "press_key"
      [] class = "ScrollAction" -> "scroll"
      [] class = "WaitAction" -> "wait"
      [] class = "DragAction" -> "drag"
      [] class = "DoneAction" -> "done"
      [] OTHER -> "fail"

\* Field(discriminator="action"): the class whose Literal is the tag
ClassOfTag(tag) == CHOOSE class \in ActionClasses : ActionTag(class) = tag

\* the fields that have a default, and the default
DefaultedFields(tag) == IF tag = "scroll" THEN {"delta_x"} ELSE {}
FieldDefault(field) == 0

\* the tag is the Literal of one of the nine classes
KnownTag(tag) == tag \in ActionTags

HasRequired_Any(obj, tag) == TRUE

\* no field without a default is missing
HasRequired(obj, tag) == RequiredFields(tag) \subseteq DOMAIN obj

\* the object does not validate
Invalid == [valid |-> FALSE, class |-> "", fields |-> EmptyDict]
Instance(class, fields) == [valid |-> TRUE, class |-> class, fields |-> fields]

\* validation of a JSON object as Action: the discriminator picks the class
\* by the tag, the class takes its own fields from the object, a missing
\* field takes its default if it has one, other keys are ignored
ParseAction(obj) ==
    IF "action" \notin DOMAIN obj THEN Invalid
    ELSE IF ~KnownTag(obj["action"]) THEN Invalid
    ELSE IF ~HasRequired(obj, obj["action"]) THEN Invalid
    ELSE Instance(ClassOfTag(obj["action"]),
                  [f \in RequiredFields(obj["action"]) \cup DefaultedFields(obj["action"]) |->
                      IF f \in DOMAIN obj THEN obj[f] ELSE FieldDefault(f)])

model_dump_json_NoTag(instance) == instance.fields

\* model_dump_json: every field of the instance, the tag included
model_dump_json(instance) ==
    [k \in {"action"} \cup DOMAIN instance.fields |->
        IF k = "action" THEN ActionTag(instance.class) ELSE instance.fields[k]]

\* values of the fields: str for text, key, summary and reason, int for the
\* others
StrFields == {"text", "key", "summary", "reason"}
FieldValue(field, choice) ==
    IF field \in StrFields THEN (IF choice = 0 THEN "" ELSE "hello")
    ELSE (IF choice = 0 THEN 0 ELSE 100)

\* valid instances of the nine classes
ActionInstances ==
    UNION {{Instance(class, [f \in DOMAIN choice |-> FieldValue(f, choice[f])]) :
               choice \in [RequiredFields(ActionTag(class))
                           \cup DefaultedFields(ActionTag(class)) -> {0, 1}]} :
           class \in ActionClasses}

\* key sets of the objects given to the parser: the required fields of a
\* class, all of them or all but one, with or without delta_x
KeySets ==
    UNION UNION
        {{{RequiredFields(tag) \ drop, (RequiredFields(tag) \ drop) \cup {"delta_x"}} :
              drop \in {{}} \cup {{f} : f \in RequiredFields(tag)}} : tag \in ActionTags}

ObjectOf(keys) == [k \in keys |-> FieldValue(k, 1)]
WithTag(obj, tag) ==
    [k \in {"action"} \cup DOMAIN obj |-> IF k = "action" THEN tag ELSE obj[k]]

\* action objects: every known tag and an unknown one with every key set,
\* and objects without a tag
ActionObjects ==
    {WithTag(ObjectOf(keys), tag) : keys \in KeySets, tag \in ActionTags \cup {"hover"}}
    \cup {ObjectOf(keys) : keys \in KeySets}

InitActions ==
    /\ env = "actions_alone"
    /\ exit_code = -1
    /\ NoLoop /\ NoCall /\ NoFiles
    /\ ret = NoReturn
    /\ \/ pc = "parse_start" /\ arg \in ActionObjects
       \/ pc = "dump_start" /\ arg \in ActionInstances

\* the object is parsed through the tagged union
Parse ==
    /\ pc = "parse_start"
    /\ ret' = ParseAction(arg)
    /\ pc' = "parsed"
    /\ UNCHANGED <<env, exit_code, loop_vars, call_vars, file_vars, arg>>

\* the instance is serialized
Dump ==
    /\ pc = "dump_start"
    /\ ret' = model_dump_json(arg)
    /\ pc' = "dumped"
    /\ UNCHANGED <<env, exit_code, loop_vars, call_vars, file_vars, arg>>

\* what was serialized is parsed
ParseBack ==
    /\ pc = "dumped"
    /\ ret' = ParseAction(ret)
    /\ pc' = "parsed_back"
    /\ UNCHANGED <<env, exit_code, loop_vars, call_vars, file_vars, arg>>

NextActions ==
    \/ Parse
    \/ Dump
    \/ ParseBack

SpecActions == InitActions /\ [][NextActions]_vars

(***************************************************************************)
(* The schema translators called on their own (llm_caller/openai.py,       *)
(* llm_caller/google_vertex.py)                                            *)
(*                                                                         *)
(* A JSON schema is a function from its keywords to their values.  The     *)
(* value of "type" records whether it was written as one name or as an     *)
(* array of names; "required" is the set of the names of its list;         *)
(* "$ref" holds the name N of "#/$defs/N".                                 *)
(***************************************************************************)
\* "type": "t" and "type": ["t1", "t2"]
StrType(t) == [list |-> FALSE, types |-> <<t>>]
ListType(ts) == [list |-> TRUE, types |-> ts]
\* {"type": "null"}
NullSchema == [type |-> StrType("null")]
\* item.get("type") == "null"
IsNullSchema(item) == "type" \in DOMAIN item /\ item.type = StrType("null")
NotNullSchema(item) == ~IsNullSchema(item)

\* {k: v for k, v in d.items() if k not in keys}, ... if k in keys, and
\* {**d, key: value}
Without(d, keys) == [k \in DOMAIN d \ keys |-> d[k]]
Only(d, keys) == [k \in DOMAIN d \cap keys |-> d[k]]
With(d, key, value) == [k \in DOMAIN d \cup {key} |-> IF k = key THEN value ELSE d[k]]

strip_ref_extras(item) ==
    IF "$ref" \in DOMAIN item THEN Without(item, {"default", "description", "title"})
    ELSE item

\* type_specific_keys of process_property_schema
TypeSpecificKeys ==
    {"type", "items", "properties", "required", "additionalProperties", "enum"}

\* lines 90-106 of process_property_schema: the union with null made for a
\* property that is not required and has a type
NullableUnion(res) ==
    IF "type" \notin DOMAIN res THEN res
    ELSE IF ~res.type.list /\ res.type # StrType("null")
    THEN With(Without(res, TypeSpecificKeys), "anyOf",
              <<Only(res, TypeSpecificKeys), NullSchema>>)
    ELSE IF res.type.list /\ \A i \in 1..Len(res.type.types) : res.type.types[i] # "null"
    THEN With(Without(res, TypeSpecificKeys), "anyOf",
              <<With(Only(res, TypeSpecificKeys), "type",
                     IF Len(res.type.types) = 1 THEN StrType(res.type.types[1])
                     ELSE res.type),
                NullSchema>>)
    ELSE res

RECURSIVE process_property_schema(_, _), process_object_schema(_)

\* process_property_schema(prop_schema, is_required)
process_property_schema(prop_schema, is_required) ==
    IF "$ref" \in DOMAIN prop_schema
    THEN IF ~is_required THEN [anyOf |-> <<strip_ref_extras(prop_schema), NullSchema>>]
         ELSE strip_ref_extras(prop_schema)
    ELSE LET prop == IF "oneOf" \in DOMAIN prop_schema
                     THEN With(Without(prop_schema, {"oneOf", "discriminator"}),
                               "anyOf", prop_schema["oneOf"])
                     ELSE prop_schema
         IN  IF "anyOf" \in DOMAIN prop
             THEN LET kept == SelectSeq(prop["anyOf"], NotNullSchema)
                      any_of_items ==
                          [i \in 1..Len(kept) |->
                              IF "$ref" \in DOMAIN kept[i] THEN strip_ref_extras(kept[i])
                              ELSE process_object_schema(kept[i])]
                      res == With(Without(prop, {"oneOf", "discriminator"}), "anyOf",
                                     IF is_required THEN any_of_items
                                     ELSE Append(any_of_items, NullSchema))
                  IN  IF is_required THEN Without(res, {"default"}) ELSE res
             ELSE IF is_required
                  THEN Without(process_object_schema(prop), {"default"})
                  ELSE NullableUnion(process_object_schema(prop))

\* process_object_schema(obj), for a dict; a schema holds one of anyOf and
\* oneOf at most
process_object_schema(obj) ==
    IF "$ref" \in DOMAIN obj THEN obj
    ELSE LET keys == (DOMAIN obj \ {"discriminator", "oneOf"})
                     \cup (IF "oneOf" \in DOMAIN obj THEN {"anyOf"} ELSE {})
             current_required == IF "required" \in DOMAIN obj THEN obj["required"] ELSE {}
             res ==
                 [key \in keys |->
                     CASE key = "$defs" ->
                            [n \in DOMAIN obj[key] |-> process_object_schema(obj[key][n])]
                       [] key = "properties" ->
                            [n \in DOMAIN obj[key] |->
                                process_property_schema(obj[key][n], n \in current_required)]
                       [] key = "items" -> process_object_schema(obj[key])
                       [] key = "anyOf" ->
                            LET value == IF "oneOf" \in DOMAIN obj THEN obj["oneOf"] ELSE obj[key]
                            IN  [i \in 1..Len(value) |-> process_object_schema(value[i])]
                       [] OTHER -> obj[key]]
         IN  IF "properties" \in DOMAIN res
             THEN [key \in DOMAIN res \cup {"additionalProperties", "required", "type"} |->
                     CASE key = "additionalProperties" -> FALSE
                       [] key = "required" -> DOMAIN res["properties"]
                       [] key = "type" ->
                            IF "type" \in DOMAIN res THEN res["type"] ELSE StrType("object")
                       [] key = "properties" ->
                            [n \in DOMAIN res[key] |-> Without(res[key][n], {"default"})]
                       [] OTHER -> res[key]]
             ELSE IF "type" \in DOMAIN res /\ res["type"] = StrType("object")
             THEN [key \in DOMAIN res \cup {"additionalProperties", "properties", "required"} |->
                     CASE key = "additionalProperties" -> FALSE
                       [] key = "properties" -> <<>>
                       [] key = "required" ->
                            IF "required" \in DOMAIN res THEN res["required"] ELSE {}
                       [] OTHER -> res[key]]
             ELSE res

_make_schema_strict(schema) == process_object_schema(schema)

\* _flatten_refs(node, defs), for a dict
RECURSIVE _flatten_refs(_, _)
_flatten_refs(node, defs) ==
    IF "$ref" \in DOMAIN node
    THEN IF node["$ref"] \in DOMAIN defs THEN _flatten_refs(defs[node["$ref"]], defs)
         ELSE node
    ELSE [key \in DOMAIN node |->
             CASE key \in {"properties", "$defs"} ->
                    [n \in DOMAIN node[key] |-> _flatten_refs(node[key][n], defs)]
               [] key = "items" -> _flatten_refs(node[key], defs)
               [] key \in {"anyOf", "oneOf"} ->
                    [i \in 1..Len(node[key]) |-> _flatten_refs(node[key][i], defs)]
               [] OTHER -> node[key]]

\* _process_schema_node(node), for a dict
RECURSIVE _process_schema_node(_)
_process_schema_node(node) ==
    LET type_array == "type" \in DOMAIN node /\ node["type"].list
        keys == (DOMAIN node \ ({"additionalProperties"} \cup (IF type_array THEN {"type"} ELSE {})))
                \cup (IF type_array THEN {"anyOf"} ELSE {})
    IN  [key \in keys |->
            CASE key = "anyOf" /\ type_array ->
                   [i \in 1..Len(node["type"].types) |-> [type |-> StrType(node["type"].types[i])]]
              [] key \in {"properties", "$defs"} ->
                   [n \in DOMAIN node[key] |-> _process_schema_node(node[key][n])]
              [] key = "items" -> _process_schema_node(node[key])
              [] key \in {"anyOf", "oneOf"} ->
                   [i \in 1..Len(node[key]) |-> _process_schema_node(node[key][i])]
              [] OTHER -> node[key]]

_convert_schema_to_gemini(schema) ==
    LET defs == IF "$defs" \in DOMAIN schema THEN schema["$defs"] ELSE <<>>
        rest == Without(schema, {"$defs"})
    IN  _process_schema_node(IF DOMAIN defs # {} THEN _flatten_refs(rest, defs) ELSE rest)

\* the schemas given to the translators: an object with two properties, each
\* of one of the kinds below and required or not, and two definitions
Ref(name) == [k \in {"$ref"} |-> name]
SubModel(tag) ==
    [type |-> StrType("object"), title |-> tag,
     properties |-> [action |-> [const |-> tag, default |-> tag, type |-> StrType("string")],
                     x |-> [type |-> StrType("integer")]],
     required |-> {"x"}]
Inner ==
    [type |-> StrType("object"),
     properties |-> [inner |-> [type |-> StrType("string")],
                     extra |-> [type |-> StrType("integer"), default |-> "0"]],
     required |-> {"inner"}]
PropKinds ==
    {"string", "defaulted", "array_one", "array_two", "array_null", "ref", "optional",
     "union", "optional_ref", "tagged", "object", "objects", "optional_object", "dict",
     "any", "mixed_literal"}
PropSchema(kind) ==
    CASE kind = "string" -> [type |-> StrType("string"), title |-> "P"]
      [] kind = "defaulted" -> [type |-> StrType("integer"), default |-> "0", title |-> "P"]
      [] kind = "array_one" -> [type |-> ListType(<<"string">>), title |-> "P"]
      [] kind = "array_two" -> [type |-> ListType(<<"string", "integer">>), title |-> "P"]
      [] kind = "array_null" -> [type |-> ListType(<<"string", "null">>), title |-> "P"]
      [] kind = "ref" -> With(Ref("Sub"), "description", "A sub model")
      [] kind = "optional" ->
           [anyOf |-> <<[type |-> StrType("string")], NullSchema>>, default |-> "null",
            title |-> "P"]
      [] kind = "union" ->
           [anyOf |-> <<[type |-> StrType("string")], [type |-> StrType("integer")]>>,
            title |-> "P"]
      [] kind = "optional_ref" -> [anyOf |-> <<Ref("Sub"), NullSchema>>, default |-> "null"]
      [] kind = "tagged" ->
           [oneOf |-> <<Ref("Sub"), Ref("Other")>>,
            discriminator |-> [propertyName |-> "action"], title |-> "P"]
      [] kind = "object" -> Inner
      [] kind = "objects" -> [type |-> StrType("array"), items |-> Inner, title |-> "P"]
      [] kind = "optional_object" -> [anyOf |-> <<Inner, NullSchema>>, default |-> "null"]
      [] kind = "dict" ->
           [type |-> StrType("object"), additionalProperties |-> TRUE, title |-> "P"]
      [] kind = "any" -> [title |-> "P"]
      [] OTHER -> [enum |-> {"a", "1"}, default |-> "a", title |-> "P"]
RootSchema(kind_p, kind_q, required) ==
    With([type |-> StrType("object"), title |-> "Root",
          properties |-> [p |-> PropSchema(kind_p), q |-> PropSchema(kind_q)],
          required |-> required],
         "$defs", [Sub |-> SubModel("sub"), Other |-> SubModel("other")])

\* the same schema with every array of types written as an anyOf of one
\* schema per type, as pydantic writes a union
RECURSIVE UnionNotation(_)
UnionNotation(node) ==
    LET type_array == "type" \in DOMAIN node /\ node["type"].list
                      /\ Len(node["type"].types) > 1
        keys == (DOMAIN node \ (IF type_array THEN {"type"} ELSE {}))
                \cup (IF type_array THEN {"anyOf"} ELSE {})
    IN  [key \in keys |->
            CASE key = "anyOf" /\ type_array ->
                   [i \in 1..Len(node["type"].types) |-> [type |-> StrType(node["type"].types[i])]]
              [] key \in {"properties", "$defs"} ->
                   [n \in DOMAIN node[key] |-> UnionNotation(node[key][n])]
              [] key = "items" -> UnionNotation(node[key])
              [] key \in {"anyOf", "oneOf"} ->
                   [i \in 1..Len(node[key]) |-> UnionNotation(node[key][i])]
              [] OTHER -> node[key]]

InitSchema ==
    /\ env = "schema"
    /\ pc = "schema_start"
    /\ exit_code = -1
    /\ NoLoop /\ NoCall /\ NoFiles
    /\ ret = NoReturn
    /\ \E kind_p \in PropKinds, kind_q \in PropKinds, required \in SUBSET {"p", "q"} :
          arg = RootSchema(kind_p, kind_q, required)

\* _make_schema_strict(base_schema) in _do_api_call of the OpenAI caller
MakeStrict ==
    /\ pc = "schema_start"
    /\ ret' = _make_schema_strict(arg)
    /\ pc' = "strict"
    /\ UNCHANGED <<env, exit_code, loop_vars, call_vars, file_vars, arg>>

\* _convert_schema_to_gemini(base_schema) in _do_api_call of the Gemini caller
ConvertToGemini ==
    /\ pc = "schema_start"
    /\ ret' = _convert_schema_to_gemini(arg)
    /\ pc' = "gemini"
    /\ UNCHANGED <<env, exit_code, loop_vars, call_vars, file_vars, arg>>

\* the same translator is given the schema in the other notation; ret holds
\* both results
TranslateUnionNotation ==
    /\ pc \in {"strict", "gemini"}
    /\ ret' = <<ret, IF pc = "strict" THEN _make_schema_strict(UnionNotation(arg))
                     ELSE _convert_schema_to_gemini(UnionNotation(arg))>>
    /\ pc' = IF pc = "strict" THEN "strict_both" ELSE "gemini_both"
    /\ UNCHANGED <<env, exit_code, loop_vars, call_vars, file_vars, arg>>

NextSchema ==
    \/ MakeStrict
    \/ ConvertToGemini
    \/ TranslateUnionNotation

SpecSchema == InitSchema /\ [][NextSchema]_vars

(***************************************************************************)
(* Properties                                                              *)
(***************************************************************************)
\* the calls of browser_log other than the screenshot and URL reads
ActedOnBrowser ==
    \E i \in 1..Len(browser_log) :
        browser_log[i].method \notin {"screenshot_base64", "current_url"}

\* the ends of a _do_api_call after which the retry loop goes on
RetryOutcomes == {"retry_empty", "retry_json", "retry_schema"}

\* every _do_api_call so far ended in a retry
AllRetried == \A i \in 1..Len(call_log) : call_log[i] \in RetryOutcomes

ExhaustedCall == Len(call_log) = 3 /\ AllRetried

ForceStopped ==
    result.returned /\ result.summary = "Force stopped: stuck on the same screen"

\* C1: when the validated response carries a done or fail action the loop
\* goes straight to the step callback and returns: no browser action method
\* and no 2000 ms settle wait happen in that step, and the result has
\* success = TRUE for done and success = FALSE for fail.
C1_TerminalActionReturns ==
    /\ response.action.action \in {"done", "fail"} =>
           /\ pc \in {"checkpoint", "return", "exited"} \cup SavePcs
           /\ terminal
           /\ ~ActedOnBrowser
    /\ (pc = "return" /\ response.action.action \in {"done", "fail"}) =>
           /\ result.returned
           /\ result.success = (response.action.action = "done")
           /\ result.steps_taken = step

C1_Witness ==
    /\ pc = "return"
    /\ response.action.action = "fail"
    /\ result.returned /\ ~result.success
    /\ browser_log = <<BrowserCall("screenshot_base64", 0), BrowserCall("current_url", 0)>>

\* C2: with max_steps > 0, no screenshot, model call, action or checkpoint
\* happens in a step numbered above max_steps, in a fresh process or in a
\* resumed one; the iteration whose step number exceeds max_steps returns a
\* failed result of max_steps steps without reading the browser or calling
\* the model; the session file never records a step above max_steps.
C2_MaxStepsBound ==
    /\ (max_steps > 0 /\ pc \in (RunningPcs \ {"top"})) => step <= max_steps
    /\ (max_steps > 0 /\ pc = "return" /\ step > max_steps) =>
           /\ result.returned /\ ~result.success
           /\ result.steps_taken = max_steps
           /\ browser_log = <<>>
           /\ call_log = <<>>
    /\ (Exists(files, SESSION_JSON) /\ files[SESSION_JSON].data.max_steps > 0) =>
           files[SESSION_JSON].data.step <= files[SESSION_JSON].data.max_steps

C2_Witness ==
    /\ resumes > 0
    /\ max_steps > 0
    /\ pc = "return"
    /\ step > max_steps
    /\ ~result.success
    /\ call_log = <<>>

\* C3: while every capture so far gave the same screenshot hash, the warning
\* counter of that hash is 0 through the 4th capture and then one more per
\* capture from the 5th on, and the loop is force-stopped at the 8th
\* capture and at no other.
C3_StuckEscalation ==
    \A h \in AllScreens :
        (pc \in ((RunningPcs \ {"top", "capture"}) \cup {"return"})
         /\ step > 0 /\ screenshot_counts[h] = step) =>
            /\ screenshot_warnings[h] = IF step >= 5 THEN step - 4 ELSE 0
            /\ ForceStopped <=> step = 8
            /\ step <= 8

C3_Witness ==
    /\ pc = "return"
    /\ ForceStopped
    /\ step = 8
    /\ \E h \in AllScreens : screenshot_counts[h] = 8 /\ screenshot_warnings[h] = 4

\* C4: at every model call of the loop the conversation begins with a user
\* message, alternates user and assistant strictly, and ends with the user
\* turn of the current step; also after compactions and resume injections.
C4_HistoryAlternates ==
    (pc = "call_llm" /\ env \in LoopEnvs) =>
        /\ Len(conversation) >= 1
        /\ \A i \in 1..Len(conversation) :
               conversation[i].role = IF i % 2 = 1 THEN USER ELSE ASSISTANT
        /\ \E hint \in {""} \cup {StuckHint(w, c) : w \in 1..4, c \in 1..StuckCap} :
               conversation[Len(conversation)] =
                   UserTurn(screenshot_b64, current_url, step, max_steps, hint)

C4_Witness ==
    /\ pc = "call_llm"
    /\ resumes > 0
    /\ \E i \in 1..Len(conversation) : conversation[i] = CompressAck
    /\ \E i \in 1..Len(conversation) : conversation[i] = ResumeNote
    /\ conversation[Len(conversation) - 1] # ResumeAck

\* C5: once a step has appended its turns, the user turn of the step before
\* it holds no image, so at every model call only the last message of the
\* conversation holds an image.
C5_OnlyCurrentTurnHasImage ==
    (pc = "call_llm" /\ env \in LoopEnvs) =>
        \A i \in 1..(Len(conversation) - 1) : ~HasImage(conversation[i])

\* C6: a conversation of more than 50 messages is compacted to 12: a user
\* message with the summary text, the fixed assistant acknowledgement, and
\* the last 10 messages as they were.
C6_CompactionShape ==
    (pc = "compressed" /\ Len(arg) > 50) =>
        /\ Len(ret) = 12
        /\ ret[1].role = USER
        /\ IsStr(ret[1].content)
        /\ Len(ret[1].content.s) >= 26
        /\ SubSeq(ret[1].content.s, 1, 26) = "Summary of previous steps:"
        /\ ret[2] = CompressAck
        /\ ret[2].role = ASSISTANT
        /\ \A i \in 1..10 : ret[2 + i] = arg[Len(arg) - 10 + i]

C6_Witness ==
    /\ pc = "compressed"
    /\ Len(arg) > 50
    /\ Len(ret) = 12
    /\ \E i \in 3..12 : HasImage(ret[i])

\* C7: one call_llm makes at most 3 provider calls; every provider call but
\* the last ended with no content, with text that is not JSON after fence
\* stripping, or with a schema failure; an attempt that returns text (no
\* schema) or a validated object ends the call.
C7_AtMostThreeAttempts ==
    /\ Len(call_log) <= 3
    /\ attempt = Len(call_log)
    /\ \A i \in 1..(Len(call_log) - 1) : call_log[i] \in RetryOutcomes
    /\ pc = "call_llm" => AllRetried
    /\ (call_log # <<>> /\ call_log[Len(call_log)] \in {"return_text", "return_object"}) =>
           /\ pc # "call_llm"
           /\ call_out.kind = IF call_log[Len(call_log)] = "return_text"
                              THEN "text" ELSE "object"

C7_Witness ==
    /\ pc = "call_done"
    /\ Len(call_log) = 3
    /\ call_log[1] = "retry_empty"
    /\ call_log[2] \in {"retry_json", "retry_schema"}
    /\ call_log[3] = "return_object"

\* C8: when all three attempts of a call with the AgentResponse schema fail,
\* call_llm raises: the process exits with the conversation still ending in
\* the user turn and without a browser action; an action is executed only
\* for a response that passed validation.
C8_ExhaustedRaises ==
    /\ (env \in LoopEnvs /\ json_schema = AgentResponseSchema /\ ExhaustedCall) =>
           /\ call_out.kind = "raise"
           /\ pc = "exited"
           /\ exit_code = 1
           /\ conversation[Len(conversation)].role = USER
           /\ ~ActedOnBrowser
           /\ ~result.returned
    /\ pc \in {"execute", "settle"} =>
           /\ IsAgentResponse(call_out)
           /\ response = call_out.doc.obj
           /\ conversation[Len(conversation)] = AssistantTurn(response)

C8_Witness ==
    /\ pc = "exited"
    /\ exit_code = 1
    /\ json_schema = AgentResponseSchema
    /\ ExhaustedCall
    /\ call_log[3] = "retry_schema"
    /\ call_out.kind = "raise"

\* C9 as stated: an exception of the provider ends the call with an error
\* that carries the usage collected so far, with a schema or without one.
C9_ProviderErrorCarriesUsage ==
    (call_log # <<>> /\ call_log[Len(call_log)] = "raise") =>
        /\ pc # "call_llm"
        /\ call_out.kind = "raise"
        /\ call_out.with_usage
        /\ call_out.usage = call_usage

\* C9: an exception of the provider ends the call without another provider
\* call; with a schema the exception is raised again and carries no usage,
\* without a schema call_llm returns an "Error: ..." text together with the
\* usage collected so far.
C9_ProviderErrorEndsCall ==
    (call_log # <<>> /\ call_log[Len(call_log)] = "raise") =>
        /\ pc # "call_llm"
        /\ attempt = Len(call_log)
        /\ IF json_schema.kind = "none"
           THEN /\ call_out.kind = "text"
                /\ call_out.error
                /\ call_out.with_usage
                /\ call_out.usage = call_usage
           ELSE /\ call_out.kind = "raise"
                /\ ~call_out.with_usage

C9_Witness ==
    /\ pc = "call_done"
    /\ Len(call_log) = 2
    /\ call_log[2] = "raise"
    /\ json_schema = NoSchema
    /\ call_out.kind = "text" /\ call_out.error
    /\ call_out.usage # ZeroUsage

\* session.json is never seen half written; while the temp file of the
\* running save, or of a save cut short by a crash, exists session.json is
\* what it was when the save began; an interrupted save leaves session.json
\* as it was; after a save session.json is the whole new state
AtomicSave ==
    /\ Exists(files, SESSION_JSON) => files[SESSION_JSON].written = "complete"
    /\ (tmp_path # "" /\ Exists(files, tmp_path)) => SessionFile(files) = file_before
    /\ pc = "save_interrupted" => SessionFile(files) = file_before
    /\ (pc \in (RunningPcs \ SavePcs) \cup {"return"} /\ pending.version = 1) =>
           files[SESSION_JSON] = FileContent("complete", pending)

\* C10 as stated: saves are atomic, and after a successful save no temp file
\* is left in the session directory.
C10_NoTempFileRemains ==
    /\ AtomicSave
    /\ (pc \in (RunningPcs \ SavePcs) \cup {"return"} /\ pending.version = 1) =>
           TmpFiles(files) = {}

\* C10: saves are atomic, and after a successful save the temp file of that
\* save is gone (one left by an earlier, killed save stays).
C10_OwnTempFileRemoved ==
    /\ AtomicSave
    /\ (pc \in (RunningPcs \ SavePcs) \cup {"return"} /\ pending.version = 1) =>
           ~Exists(files, tmp_path)

C10_Witness ==
    /\ pc = "exited"
    /\ exit_code = 137
    /\ Exists(files, tmp_path)
    /\ files[tmp_path].written = "partial"
    /\ pending.step = 2
    /\ file_before.exists
    /\ files[SESSION_JSON] = file_before.content
    /\ files[SESSION_JSON].written = "complete"
    /\ files[SESSION_JSON].data.step = 1

C12_FinishedSessionNotResumed ==
    [][/\ (pc = "exited" /\ Exists(files, SESSION_JSON)
           /\ files[SESSION_JSON].data.status \in {"done", "failed"}) =>
              /\ pc' = "exited"
              /\ exit_code' = 1
              /\ files' = files
              /\ resumes' = resumes
              /\ browser_log' = browser_log
              /\ call_log' = call_log
       /\ resumes' # resumes =>
              /\ Loadable(files)
              /\ files[SESSION_JSON].data.status \in {"in_progress", "interrupted"}
              /\ files' = files]_vars

\* a resume of a session that is done was refused
C12_Witness ==
    /\ pc = "exited"
    /\ exit_code = 1
    /\ Exists(files, SESSION_JSON)
    /\ files[SESSION_JSON].data.status = "done"
    /\ resumes = 0

\* the loop was started from a checkpoint and has not yet added a turn
JustResumed ==
    /\ resumes > 0
    /\ Len(conversation) >= 2
    /\ conversation[Len(conversation)] = ResumeAck

\* C13: a loop started from the checkpoint of step k holds, before its first
\* step, the step number, repeat counts, warning counts, usage and elapsed
\* time that the run held when step k was saved, and numbers its first
\* step k + 1.
C13_ResumeContinuesCounters ==
    /\ (pc = "top" /\ JustResumed) =>
           /\ step = committed.step
           /\ screenshot_counts = committed.screenshot_counts
           /\ screenshot_warnings = committed.screenshot_warnings
           /\ total_usage = committed.usage
           /\ elapsed = committed.elapsed_seconds
    /\ (pc = "capture" /\ JustResumed) =>
           /\ step = committed.step + 1
           /\ screenshot_counts = committed.screenshot_counts
           /\ screenshot_warnings = committed.screenshot_warnings
           /\ total_usage = committed.usage
    /\ (pc = "call_llm" /\ resumes > 0 /\ Len(conversation) >= 3
        /\ conversation[Len(conversation) - 1] = ResumeAck) =>
           /\ step = committed.step + 1
           /\ total_usage = committed.usage
           /\ screenshot_counts[Md5(screenshot_b64)] =
                  committed.screenshot_counts[Md5(screenshot_b64)] + 1

C13_Witness ==
    /\ pc = "call_llm"
    /\ resumes > 0
    /\ conversation[Len(conversation) - 1] = ResumeAck
    /\ committed.step = 1
    /\ step = 2
    /\ total_usage # ZeroUsage
    /\ screenshot_counts[Md5(screenshot_b64)] = 2

\* C14: in a step that obtained a validated response the step callback runs
\* once, after the browser action of a non-terminal step and before the
\* return of a done or fail step, with the number of that step in the
\* snapshot; each completed checkpoint has the step number of the one before
\* it plus 1.
C14_OneCheckpointPerStep ==
    /\ [](/\ pc \in {"execute", "settle", "checkpoint"} => committed.step = step - 1
          /\ pc \in SavePcs =>
                 /\ pending.step = step
                 /\ committed.step = step - 1
                 /\ IF terminal THEN ~ActedOnBrowser /\ ~result.returned
                    ELSE ActedOnBrowser
          /\ pc = "top" => committed.step = step
          /\ (pc = "return" /\ terminal) =>
                 committed.step = step /\ result.steps_taken = step
          /\ (resumes = 0 /\ pc \in RunningPcs \cup {"return"}) =>
                 tmp_seq = committed.step + (IF pc \in SavePcs THEN 1 ELSE 0))
    /\ [][committed' # committed =>
              /\ committed'.step = committed.step + 1
              /\ committed'.step = step
              /\ files'[SESSION_JSON].data = committed']_vars

C14_Witness ==
    /\ pc = "return"
    /\ terminal
    /\ resumes > 0
    /\ committed.step = 2
    /\ files[SESSION_JSON].data.step = 2
    /\ step = 2

\* C15: while step N+1 captures, calls the model or acts, session.json is
\* the whole state saved by step N and no save is under way: the checkpoint
\* of a step is in place before the next step begins.
C15_CheckpointBeforeNextStep ==
    (pc \in {"capture", "call_llm", "execute", "settle"} /\ step >= 2) =>
        /\ Exists(files, SESSION_JSON)
        /\ files[SESSION_JSON].written = "complete"
        /\ files[SESSION_JSON].data.step = step - 1
        /\ InterruptedData(files[SESSION_JSON].data) = InterruptedData(committed)
        /\ tmp_path = "" \/ ~Exists(files, tmp_path)

C15_Witness ==
    /\ pc = "capture"
    /\ step = 3
    /\ resumes = 0
    /\ files[SESSION_JSON].data.step = 2
    /\ files[SESSION_JSON].data.status = "in_progress"
    /\ Len(files[SESSION_JSON].data.conversation) = 4

\* run_agent returned a result and main() has finished with it
Finalized == pc = "exited" /\ result.returned

\* C16: after the loop returned a result and main() handled it, session.json
\* has status done when the result is a success, which only a done action
\* gives, and failed for every other result (fail action, max steps,
\* timeout, force stop); a file with status done or failed is never written
\* again.
C16_FinalStatusMatchesResult ==
    /\ [](Finalized =>
             /\ Exists(files, SESSION_JSON)
             /\ files[SESSION_JSON].written = "complete"
             /\ files[SESSION_JSON].data.status =
                    IF result.success THEN "done" ELSE "failed"
             /\ result.success <=> (terminal /\ response.action.action = "done")
             /\ files[SESSION_JSON].data.step = result.steps_taken
             /\ files[SESSION_JSON].data.usage = result.usage)
    /\ [][(Exists(files, SESSION_JSON)
           /\ files[SESSION_JSON].data.status \in {"done", "failed"}) =>
              files' = files]_vars

C16_Witness ==
    /\ Finalized
    /\ ForceStopped
    /\ files[SESSION_JSON].data.status = "failed"
    /\ files[SESSION_JSON].data.step = 8

\* C17 as stated: from the start of a session, also before its first step
\* has completed, session.json exists and can be loaded.
C17_FileFromSessionStart ==
    /\ (pc \in RunningPcs /\ step >= 1) =>
           /\ Loadable(files)
           /\ resumes = 0 => files[SESSION_JSON].data.status = "in_progress"
    /\ (pc = "exited" /\ exit_code \in {130, 137}) => Loadable(files)

\* C17: session.json exists exactly from the completion of the first
\* checkpoint on; until then the session directory holds no session.json,
\* and an interrupt or crash in the first step leaves none; while the loop
\* of the first process runs an existing file has status in_progress.
C17_FileFromFirstCheckpoint ==
    env \in LoopEnvs =>
        /\ Exists(files, SESSION_JSON) <=> committed.version = 1
        /\ committed.version = 1 => Loadable(files) /\ committed.step >= 1
        /\ (pc \in RunningPcs /\ step <= 1 /\ resumes = 0 /\ pc # "top") =>
               ~Exists(files, SESSION_JSON)
        /\ (pc \in RunningPcs /\ resumes = 0 /\ Exists(files, SESSION_JSON)) =>
               files[SESSION_JSON].data.status = "in_progress"

\* Ctrl+C while the first step was being saved: no session.json
C17_Witness ==
    /\ pc = "exited"
    /\ exit_code = 130
    /\ tmp_seq = 1
    /\ resumes = 0
    /\ ~Exists(files, SESSION_JSON)
    /\ files = EmptyDir

RECURSIVE SumTokens(_, _)
SumTokens(field, n) ==
    IF n = 0 THEN 0 ELSE usage_log[n][field] + SumTokens(field, n - 1)

\* C19: when call_llm returns after k failed attempts and a valid one, each
\* of the four token counts it returns is the sum of that count over the
\* usages reported by the k + 1 provider calls.
C19_UsageIsSumOfAttempts ==
    (call_log # <<>> /\ call_log[Len(call_log)] \in {"return_text", "return_object"}) =>
        /\ call_out.with_usage
        /\ Len(usage_log) = Len(call_log)
        /\ call_out.usage.input_tokens = SumTokens("input_tokens", Len(usage_log))
        /\ call_out.usage.output_tokens = SumTokens("output_tokens", Len(usage_log))
        /\ call_out.usage.cache_read_tokens = SumTokens("cache_read_tokens", Len(usage_log))
        /\ call_out.usage.cache_creation_tokens =
               SumTokens("cache_creation_tokens", Len(usage_log))

C19_Witness ==
    /\ pc = "call_done"
    /\ call_log = <<"retry_json", "retry_schema", "return_object">>
    /\ usage_log = <<U1, U2, U1>>
    /\ call_out.usage = UsageStats(11, 5, 2, 4)

\* the retry-instruction messages call_llm can build
RetryMessages ==
    {_create_retry_message(RetryErrorMsg(o)) :
        o \in {"retry_empty", "retry_json", "retry_schema"}}

\* how many of the attempts made so far failed on the reply's content
FailedAttempts ==
    Cardinality({i \in 1..Len(call_log) :
                    call_log[i] \in {"retry_empty", "retry_json", "retry_schema"}})

\* C20: call_llm leaves the conversation_history it was given as it is. Its
\* own list is the converted history followed by exactly one retry message
\* per failed attempt, and no retry message is ever in the loop's
\* conversation or in a session file.
C20_HistoryUntouchedByRetries ==
    /\ [](/\ \A i \in 1..Len(conversation) : conversation[i] \notin RetryMessages
          /\ \A f \in DOMAIN files :
                \A i \in 1..Len(files[f].data.conversation) :
                    files[f].data.conversation[i] \notin RetryMessages
          /\ pc = "call_llm" =>
                /\ Len(messages) = Len(conversation) + FailedAttempts
                /\ SubSeq(messages, 1, Len(conversation)) = _convert_messages(conversation)
                /\ \A i \in (Len(conversation) + 1)..Len(messages) :
                      messages[i] \in RetryMessages)
    /\ [][(pc = "call_llm" /\ pc' = "call_llm") => conversation' = conversation]_vars

C20_Witness ==
    /\ pc = "call_llm"
    /\ FailedAttempts = 2
    /\ Len(messages) = Len(conversation) + 2
    /\ messages[Len(messages)] \in RetryMessages
    /\ conversation # <<>>

WarningsAfter(n) == IF n >= 5 THEN n - 4 ELSE 0

\* C22: a capture of hash h adds one to h's repeat count, and to h's warning
\* count from the 5th capture on, and leaves the counters of every other
\* hash as they were; while the loop runs no counter goes down; the
\* warnings of a hash are a function of its repeat count alone, and the loop
\* is force-stopped exactly at the 8th capture of a hash, whatever captures
\* of other hashes came in between.
C22_CountersPerHash ==
    /\ [](\A h \in AllScreens :
            /\ screenshot_warnings[h] = WarningsAfter(screenshot_counts[h])
            /\ screenshot_counts[h] <= 8)
    /\ [](pc \in ((RunningPcs \ {"top", "capture"}) \cup {"return"}) /\ screenshot_b64 # 0 =>
            (ForceStopped <=> screenshot_counts[Md5(screenshot_b64)] = 8))
    /\ [][(pc = "capture" /\ pc' \in {"call_llm", "return"}) =>
            /\ screenshot_counts'[Md5(screenshot_b64')] =
                   screenshot_counts[Md5(screenshot_b64')] + 1
            /\ \A g \in AllScreens \ {Md5(screenshot_b64')} :
                   /\ screenshot_counts'[g] = screenshot_counts[g]
                   /\ screenshot_warnings'[g] = screenshot_warnings[g]]_vars
    /\ [][(pc \in RunningPcs /\ pc' \in RunningPcs \cup {"return"}) =>
            \A g \in AllScreens :
                /\ screenshot_counts'[g] >= screenshot_counts[g]
                /\ screenshot_warnings'[g] >= screenshot_warnings[g]]_vars

C22_Witness ==
    /\ pc = "return"
    /\ ForceStopped
    /\ screenshot_counts[Md5(screenshot_b64)] = 8
    /\ \E g \in AllScreens \ {Md5(screenshot_b64)} : screenshot_counts[g] = 1

\* run_agent returned because of the timeout
TimeoutResult(res, e) ==
    res.returned /\ res.summary = "Timeout after " \o ToString(e) \o "s"

\* C23: an iteration that begins with more than 1800 seconds elapsed, the
\* seconds of a resumed checkpoint included, returns a failed result without
\* a screenshot or a model call; the timeout result is produced at the top
\* of an iteration and nowhere else, so a step that has started goes on.
C23_TimeoutAtTopOnly ==
    /\ [](TimeoutResult(result, elapsed) =>
            /\ ~result.success
            /\ elapsed > 1800
            /\ result.steps_taken = step - 1
            /\ browser_log = <<>>
            /\ call_log = <<>>)
    /\ [][(pc = "top" /\ pc' \in {"capture", "return"} /\ elapsed > 1800) =>
            /\ pc' = "return"
            /\ result'.returned /\ ~result'.success
            /\ browser_log' = <<>>]_vars
    /\ [][(pc = "top" /\ pc' = "capture") => elapsed <= 1800]_vars
    /\ [][(TimeoutResult(result', elapsed') /\ ~TimeoutResult(result, elapsed)) =>
            pc = "top"]_vars

C23_Witness ==
    /\ pc = "return"
    /\ TimeoutResult(result, elapsed)
    /\ resumes = 1
    /\ elapsed = files[SESSION_JSON].data.elapsed_seconds
    /\ step = files[SESSION_JSON].data.step + 1

\* the fields of a SessionState other than version
StateFields ==
    {"status", "url", "last_url", "scenario", "model", "fallback_model",
     "use_smart_model", "viewport", "headless", "pause", "max_steps", "step",
     "elapsed_seconds", "screenshot_counts", "screenshot_warnings",
     "conversation", "usage"}

\* C24: load_session after save_session of a state with version 1, in the
\* same directory, returns a state with the same version and the same value
\* in every other field, whatever the directory held before.
C24_SaveLoadRoundTrip ==
    (pc = "reloaded" /\ arg.version = 1) =>
        /\ ret.raised = ""
        /\ ret.value.version = 1
        /\ DOMAIN ret.value = StateFields \cup {"version"}
        /\ \A f \in StateFields : ret.value[f] = arg[f]

C24_Witness ==
    /\ pc = "reloaded"
    /\ arg.version = 1
    /\ arg.fallback_model = None
    /\ arg.use_smart_model
    /\ arg.pause
    /\ arg.conversation # <<>>
    /\ ret.raised = ""
    /\ ret.value.pause
    /\ ret.value.screenshot_counts = [h \in {"abc123"} |-> 2]

\* C25: load_session returns a state only when session.json exists and its
\* version is 1; without the file it raises FileNotFoundError, with a file
\* whose version is another number or is absent it raises ValueError; the
\* directory is the same after the call as before it.
C25_LoadValidates ==
    /\ [](pc \in {"loaded", "reloaded"} =>
            /\ ret.raised = "" =>
                  /\ Exists(files, SESSION_JSON)
                  /\ "version" \in DOMAIN files[SESSION_JSON].data
                  /\ files[SESSION_JSON].data["version"].v = 1
                  /\ ret.value.version = 1
            /\ ~Exists(files, SESSION_JSON) => ret.raised = "FileNotFoundError"
            /\ (/\ Exists(files, SESSION_JSON)
                /\ files[SESSION_JSON].written = "complete"
                /\ \/ "version" \notin DOMAIN files[SESSION_JSON].data
                   \/ files[SESSION_JSON].data["version"].v # 1) =>
                  ret.raised = "ValueError")
    /\ [][(pc \in {"session_start", "saved"} /\ pc' \in {"loaded", "reloaded"}) =>
            files' = files]_vars

C25_Witness ==
    /\ pc = "loaded"
    /\ ret.raised = "ValueError"
    /\ Exists(files, SESSION_JSON)
    /\ "version" \notin DOMAIN files[SESSION_JSON].data

\* C26: every conversation entry of every file of the session directory has
\* a plain string as content and no parts; the conversation being saved has
\* one entry per message of the loop's conversation, at the same position and
\* with the same role, and a message with an image is stored as
\* "[screenshot omitted] " followed by its text.
C26_NoImageInFile ==
    /\ \A f \in DOMAIN files :
          \A i \in 1..Len(files[f].data.conversation) :
              /\ IsStr(files[f].data.conversation[i].content)
              /\ files[f].data.conversation[i].content.parts = <<>>
    /\ pc \in SavePcs =>
          /\ Len(pending.conversation) = Len(conversation)
          /\ \A i \in 1..Len(conversation) :
                /\ pending.conversation[i].role = conversation[i].role
                /\ IF conversation[i].content.t = "parts"
                   THEN /\ Len(conversation[i].content.parts) = 2
                        /\ conversation[i].content.parts[1].type = "image"
                        /\ pending.conversation[i].content =
                               StrContent("[screenshot omitted] "
                                          \o conversation[i].content.parts[2].text)
                   ELSE pending.conversation[i].content = conversation[i].content

C26_Witness ==
    /\ pc = "save_replace"
    /\ Len(conversation) >= 4
    /\ HasImage(conversation[1])
    /\ HasImage(conversation[3])
    /\ files[tmp_path].written = "complete"
    /\ files[tmp_path].data.conversation[1].content.s =
           "[screenshot omitted] Current URL: https://example.com/\nStep 1. What should I do next?"
    /\ files[tmp_path].data.conversation[1].role = USER

\* the directories of a sessions directory whose session.json is complete
\* JSON with status in_progress or interrupted
ResumableDirs(sessions) ==
    {n \in DOMAIN sessions.dirs :
        /\ SESSION_JSON \in DOMAIN sessions.dirs[n]
        /\ sessions.dirs[n][SESSION_JSON].written = "complete"
        /\ "status" \in DOMAIN sessions.dirs[n][SESSION_JSON].data
        /\ sessions.dirs[n][SESSION_JSON].data["status"].v \in {"in_progress", "interrupted"}}

C28_BadActionRejected ==
    pc = "parsed" =>
        /\ ("action" \in DOMAIN arg /\ arg["action"] \notin ActionTags) => ~ret.valid
        /\ ("action" \in DOMAIN arg /\ arg["action"] \in ActionTags
            /\ \E f \in RequiredFields(arg["action"]) : f \notin DOMAIN arg) => ~ret.valid
        /\ ret.valid =>
              /\ "action" \in DOMAIN arg
              /\ ActionTag(ret.class) = arg["action"]
              /\ \A f \in RequiredFields(arg["action"]) :
                    f \in DOMAIN arg /\ ret.fields[f] = arg[f]

C28_Witness ==
    /\ pc = "parsed"
    /\ "action" \in DOMAIN arg
    /\ arg["action"] = "scroll"
    /\ DOMAIN arg = {"action", "x", "y", "delta_x"}
    /\ ~ret.valid

\* C29: an instance of any of the nine variants, serialized to JSON and
\* parsed through the tagged union, comes back as an instance of the same
\* variant with the same value in every field.
C29_ActionRoundTrip ==
    pc = "parsed_back" =>
        /\ ret.valid
        /\ ret.class = arg.class
        /\ DOMAIN ret.fields = DOMAIN arg.fields
        /\ \A f \in DOMAIN arg.fields : ret.fields[f] = arg.fields[f]

C29_Witness ==
    /\ pc = "parsed_back"
    /\ arg.class = "DoubleClickAction"
    /\ ret.valid
    /\ ret.class = "DoubleClickAction"
    /\ ret.fields["x"] = 100

\* a browser call other than the reads of the screenshot and the URL
IsActionCall(call) == call.method \notin {"screenshot_base64", "current_url"}
\* the calls the current step made to act on the browser, in order
ActionCalls == SelectSeq(browser_log, IsActionCall)

\* C30: in a step with a non-terminal action the loop awaits nothing on the
\* browser before the action; then for click, double_click, type, press_key,
\* scroll and drag the one method of that action followed by one wait of
\* 2000 ms, and for wait one wait of the action's own ms and nothing else.
C30_OneActionThenSettle ==
    /\ pc = "execute" => ActionCalls = <<>>
    /\ pc = "settle" =>
          /\ response.action.action \in {"click", "double_click", "type",
                                         "press_key", "scroll", "drag"}
          /\ Len(ActionCalls) = 1
          /\ ActionCalls[1].method # "wait"
    /\ (pc \in ({"checkpoint", "top"} \cup SavePcs) /\ ~terminal /\ response # NoObj
        /\ browser_log # <<>>) =>
          IF response.action.action = "wait"
          THEN ActionCalls = <<BrowserCall("wait", response.action.ms)>>
          ELSE /\ Len(ActionCalls) = 2
               /\ ActionCalls[1].method =
                      (IF response.action.action = "type" THEN "type_text"
                       ELSE response.action.action)
               /\ ActionCalls[2] = BrowserCall("wait", 2000)

C30_Witness ==
    /\ pc = "checkpoint"
    /\ response.action.action = "drag"
    /\ ActionCalls = <<BrowserCall("drag", 0), BrowserCall("wait", 2000)>>

\* the text of the user turn of the current step without a warning
PlainTurnText ==
    "Current URL: " \o current_url \o "\n"
    \o (IF max_steps = 0 THEN "Step " \o ToString(step)
        ELSE "Step " \o ToString(step) \o "/" \o ToString(max_steps))
    \o ". What should I do next?"

\* the warning with number w for a screen seen c times
WarningText(w, c) ==
    "\n\nWARNING (" \o ToString(w) \o "/3): This exact screen has appeared "
    \o ToString(c) \o " times already. You are stuck. Try a COMPLETELY different "
    \o "approach, or use the fail action if you cannot proceed. "
    \o "You will be force-stopped after 3 warnings."

\* C31: the user turn of a step carries a stuck warning exactly when the
\* captured screenshot has then been seen 5 times or more; the number in the
\* warning is the warning counter of that hash and is 1, 2 or 3; a step that
\* force-stops adds no user turn.
C31_WarningInUserTurn ==
    /\ []((pc = "call_llm" /\ env \in LoopEnvs) =>
            LET h == Md5(screenshot_b64)
                last == conversation[Len(conversation)]
            IN  /\ last.role = USER
                /\ last.content.t = "parts"
                /\ Len(last.content.parts) = 2
                /\ IF screenshot_counts[h] >= 5
                   THEN /\ screenshot_warnings[h] \in {1, 2, 3}
                        /\ last.content.parts[2].text =
                               PlainTurnText \o WarningText(screenshot_warnings[h],
                                                            screenshot_counts[h])
                   ELSE last.content.parts[2].text = PlainTurnText)
    /\ [][(pc = "capture" /\ pc' = "return") =>
            /\ conversation' = conversation
            /\ screenshot_counts'[Md5(screenshot_b64')] >= 5
            /\ screenshot_warnings'[Md5(screenshot_b64')] > 3]_vars
    /\ [][(pc = "capture" /\ pc' = "call_llm") =>
            Len(conversation') = Len(conversation) + 1]_vars

C31_Witness ==
    /\ pc = "call_llm"
    /\ step = 9
    /\ screenshot_counts[Md5(screenshot_b64)] = 7
    /\ screenshot_warnings[Md5(screenshot_b64)] = 3
    /\ conversation[Len(conversation)].content.parts[2].text =
           PlainTurnText \o WarningText(3, 7)

\* every object schema with properties, at every depth of the schema, lists
\* all its property names in required and has additionalProperties = false
RECURSIVE StrictEverywhere(_)
StrictEverywhere(node) ==
    /\ "properties" \in DOMAIN node =>
          /\ "required" \in DOMAIN node
          /\ node["required"] = DOMAIN node["properties"]
          /\ "additionalProperties" \in DOMAIN node
          /\ node["additionalProperties"] = FALSE
          /\ \A n \in DOMAIN node["properties"] : StrictEverywhere(node["properties"][n])
    /\ "$defs" \in DOMAIN node =>
          \A n \in DOMAIN node["$defs"] : StrictEverywhere(node["$defs"][n])
    /\ "items" \in DOMAIN node => StrictEverywhere(node["items"])
    /\ "anyOf" \in DOMAIN node =>
          \A i \in 1..Len(node["anyOf"]) : StrictEverywhere(node["anyOf"][i])

\* the schema is a union that includes null: an anyOf with a null branch or
\* an array of types that names null
UnionWithNull(schema) ==
    \/ /\ "anyOf" \in DOMAIN schema
       /\ \E i \in 1..Len(schema["anyOf"]) : IsNullSchema(schema["anyOf"][i])
    \/ /\ "type" \in DOMAIN schema
       /\ schema["type"].list
       /\ \E i \in 1..Len(schema["type"].types) : schema["type"].types[i] = "null"

\* the properties of the input object that are not required are unions with
\* null in the output object; so for its definitions and for its required
\* properties that are objects
RECURSIVE OptionalAsUnion(_, _)
OptionalAsUnion(input, output) ==
    /\ "properties" \in DOMAIN input =>
          \A n \in DOMAIN input["properties"] :
              IF "required" \in DOMAIN input /\ n \in input["required"]
              THEN OptionalAsUnion(input["properties"][n], output["properties"][n])
              ELSE UnionWithNull(output["properties"][n])
    /\ "$defs" \in DOMAIN input =>
          \A n \in DOMAIN input["$defs"] :
              OptionalAsUnion(input["$defs"][n], output["$defs"][n])

\* C32: in the schema _make_schema_strict returns, every object schema that
\* has properties lists all of them in required and has additionalProperties
\* = false, at every depth; a property that was not required in the input is
\* a union that includes null in the output.
C32_StrictSchema ==
    pc = "strict" => (StrictEverywhere(ret) /\ OptionalAsUnion(arg, ret))

\* C33: a schema whose unions are written as arrays of types and the same
\* schema with them written as anyOf are translated to the same schema, by
\* the OpenAI translator and by the Gemini translator.
C33_SameShapeForBothNotations ==
    pc \in {"strict_both", "gemini_both"} => ret[1] = ret[2]

\* C34: the message list given to each provider call of the loop, the first
\* and the ones after a failed attempt, begins with a user message and
\* alternates user and assistant.
C34_ProviderListsAlternate ==
    (pc = "call_llm" /\ env \in LoopEnvs /\ MoreAttempts(attempt)) =>
        \A i \in 1..Len(messages) :
            messages[i].role = IF i % 2 = 1 THEN USER ELSE ASSISTANT

\* how many times sub occurs in the text s
Occurrences(s, sub) ==
    Cardinality({i \in 1..(Len(s) - Len(sub) + 1) : SubSeq(s, i, i + Len(sub) - 1) = sub})

\* the text of the summary message at the head of the conversation, "" when
\* there is none
SummaryText ==
    IF /\ Len(conversation) >= 1
       /\ conversation[1].role = USER
       /\ conversation[1].content.t = "str"
       /\ Len(conversation[1].content.s) >= 26
       /\ SubSeq(conversation[1].content.s, 1, 26) = "Summary of previous steps:"
    THEN conversation[1].content.s
    ELSE ""

\* the summary lines made from the acknowledgement of an earlier summary or
\* of a resume, which are not responses of the model
AckLines ==
    Occurrences(SummaryText, "[wait] Understood the summary of previous steps.")
    + Occurrences(SummaryText, "[wait] Session resumed successfully.")

\* the responses of the model that have a line of their own in the summary
SummarizedResponses == Occurrences(SummaryText, "\n  Step ") - AckLines

\* the responses of the model that are in the conversation as they were
VerbatimResponses ==
    Cardinality({i \in 1..Len(conversation) :
                    /\ conversation[i].role = ASSISTANT
                    /\ conversation[i] \notin {CompressAck, ResumeAck}})

\* C35 as stated: after every completed step each response of the session is
\* in the conversation, as it was or as a line of the summary, whatever the
\* number of compactions.
C35_NoStepLost ==
    (pc = "top" /\ env \in LoopEnvs) =>
        VerbatimResponses + SummarizedResponses = step

\* C35: after every completed step each response of the session is in the
\* conversation, as it was or as a line of the summary, as long as at most
\* one compaction happened; a later compaction makes its summary from the
\* assistant turns it folds, the acknowledgement of the summary before it
\* among them, and drops that summary: from then on the responses that were
\* only in it are in the conversation no more.
C35_StepsKeptUntilSecondCompaction ==
    (pc = "top" /\ env \in LoopEnvs) =>
        /\ Occurrences(SummaryText, "[wait] Understood the summary of previous steps.") = 0 =>
              VerbatimResponses + SummarizedResponses = step
        /\ Occurrences(SummaryText, "[wait] Understood the summary of previous steps.") > 0 =>
              /\ VerbatimResponses + SummarizedResponses < step
              /\ Occurrences(SummaryText, "\n  Step 1: [wait] Understood the summary") = 1

C35_Witness ==
    /\ pc = "top"
    /\ resumes = 0
    /\ step = 46
    /\ Len(conversation) = 12
    /\ Occurrences(SummaryText, "\n  Step 1: [wait] Understood the summary") = 1
    /\ VerbatimResponses = 5
    /\ SummarizedResponses = 20

\* C36: in every result the loop returns, steps_taken is the number of steps
\* of the session for which the provider was called (the steps completed
\* before a resume included), whichever exit produced the result
C36_StepsTakenCountsModelCalls ==
    result.returned => result.steps_taken = Cardinality(called_steps)

\* the run ended because an exception left call_llm, run_agent and _run
EndedByException == pc = "exited" /\ exit_code = 1 /\ call_out.kind = "raise"

AfterStepPcs == {"execute", "settle", "checkpoint"} \cup SavePcs

\* C38: after every completed step the live conversation has at most 50
\* messages, and so has every conversation written to the session directory;
\* the history call_llm is given has at most 53 messages (50 kept, the 2
\* messages injected on resume, 1 new user turn)
C38_ConversationBounded ==
    /\ pc \in AfterStepPcs => Len(conversation) <= _COMPRESS_THRESHOLD
    /\ pc = "return" /\ terminal => Len(conversation) <= _COMPRESS_THRESHOLD
    /\ pc = "top" /\ step > 0 => Len(conversation) <= _COMPRESS_THRESHOLD + Len(ResumeInjection)
    /\ \A name \in DOMAIN files :
          Len(files[name].data.conversation) <= _COMPRESS_THRESHOLD
    /\ Len(pending.conversation) <= _COMPRESS_THRESHOLD
    /\ pc = "call_llm" => Len(conversation) <= _COMPRESS_THRESHOLD + Len(ResumeInjection) + 1

\* a resumed session of 50 stored messages is at its first model call
C38_Witness ==
    /\ pc = "call_llm"
    /\ resumes = 1
    /\ Len(committed.conversation) = 50
    /\ Len(conversation) = 53

\* the warning counter of every hash is max(0, repeat count - 4), and no
\* repeat count is above 8
CountersAgree(counts, warnings) ==
    \A h \in AllScreens :
        /\ warnings[h] = (IF counts[h] - 4 > 0 THEN counts[h] - 4 ELSE 0)
        /\ counts[h] <= 8

\* C39: the warning counter of every hash is max(0, repeat count - 4) and no
\* repeat count exceeds 8: in the loop after every step, in every checkpoint
\* being written or on disk, and in the counters a resume starts from, which
\* are the ones of the session file
C39_CountersAgreeEverywhere ==
    /\ [](/\ CountersAgree(screenshot_counts, screenshot_warnings)
          /\ CountersAgree(pending.screenshot_counts, pending.screenshot_warnings)
          /\ \A name \in DOMAIN files :
                CountersAgree(files[name].data.screenshot_counts,
                              files[name].data.screenshot_warnings))
    /\ [][pc = "exited" /\ pc' = "top" =>
            /\ screenshot_counts' = files[SESSION_JSON].data.screenshot_counts
            /\ screenshot_warnings' = files[SESSION_JSON].data.screenshot_warnings
            /\ CountersAgree(screenshot_counts', screenshot_warnings')]_vars

\* a session resumed with a screen already warned about was force-stopped at
\* that screen's 8th capture
C39_Witness ==
    /\ pc = "return"
    /\ resumes = 1
    /\ \E h \in AllScreens :
          /\ committed.screenshot_counts[h] = 7
          /\ committed.screenshot_warnings[h] = 3
          /\ screenshot_counts[h] = 8
          /\ screenshot_warnings[h] = 4

====
